---- MODULE Spec2Model ----
(***************************************************************************)
(* A model of libspec's context-resolution and rendering engine            *)
(* (src/libspec/spec.py, class Ctx): docstring inheritance, placeholder    *)
(* binding, the per-instance recursion guard and the XML tree conversion.  *)
(*                                                                         *)
(* Python values are modelled as records so that TLC can compare them:     *)
(*   token   [t, s]            t in {"lit","var","ws"}                    *)
(*   value   [k, s, items]     k in {"str","int","dict","list","xml",...} *)
(*   element [tag, attrs, text, children]                                  *)
(* A str is a sequence of pieces (concatenation is \o).                    *)
(***************************************************************************)
EXTENDS Integers, Sequences, FiniteSets, TLC

VARIABLES
    classes,    \* the declared types: name -> [bases, doc, members, src]
    in_ctx,     \* instance -> "absent" | "true" | "false": the _in_ctx attribute
    stack,      \* the Python call stack, innermost frame last
    ret,        \* the value returned (or exception raised) by the last frame left
    invoked,    \* accessors invoked during the current outermost call
    ncalls,     \* outermost calls made so far
    last,       \* how the outermost call before this one ended, if on the same instance
    tmpl,       \* resolver check: the merged template computed for the leaf
    notes,      \* resolver check: the instance notes computed for the leaf
    xin,        \* serializer check: the mapping handed to the converter
    xout,       \* serializer check: the element it produced
    prev,       \* repeat check: what the outermost call before this one returned
    mods,       \* aggregation check: the modules that Spec.modules() lists
    disk,       \* the directories and files that write_xml has made
    registry,   \* speclib: _registry.specs
    spec_meta   \* speclib: callable -> its _spec_meta attribute

vars == <<classes, in_ctx, stack, ret, invoked, ncalls, last, tmpl, notes, xin, xout,
          prev, mods, disk, registry, spec_meta>>

------------------------------------------------------------------------------
(* Text.                                                                    *)

L(s) == [t |-> "lit", s |-> s]
V(s) == [t |-> "var", s |-> s]
NL == [t |-> "ws", s |-> "\n"]
\* {% if fields is mapping %} a line for each item {% else %} the fallback line
FieldsBlock == [t |-> "block", s |-> "fields"]

RECURSIVE lstrip(_)
lstrip(toks) ==
    IF toks = <<>> THEN <<>>
    ELSE IF Head(toks).t = "ws" THEN lstrip(Tail(toks)) ELSE toks

RECURSIVE rstrip(_)
rstrip(toks) ==
    IF toks = <<>> THEN <<>>
    ELSE IF toks[Len(toks)].t = "ws" THEN rstrip(SubSeq(toks, 1, Len(toks) - 1))
    ELSE toks

\* inspect.cleandoc: drops the blank lines that open and close a docstring.
cleandoc(doc) == rstrip(lstrip(doc))

\* str.strip()
strip(toks) == rstrip(lstrip(toks))

\* "\n\n".join(templates)
RECURSIVE join(_)
join(templates) ==
    IF templates = <<>> THEN <<>>
    ELSE IF Len(templates) = 1 THEN templates[1]
    ELSE templates[1] \o <<NL, NL>> \o join(Tail(templates))

------------------------------------------------------------------------------
(* Types and their resolution order.                                        *)

Range(f) == {f[x] : x \in DOMAIN f}

RECURSIVE Merge(_)
\* The merge step of Python's C3 linearization over a sequence of sequences.
Merge(seqs) ==
    LET live == SelectSeq(seqs, LAMBDA q : q # <<>>)
        good(i) == \A j \in 1..Len(live) :
                      Head(live[i]) \notin Range(Tail(live[j]))
        cands == {i \in 1..Len(live) : good(i)}
    IN  IF live = <<>> \/ cands = {} THEN <<>>
        ELSE LET i == CHOOSE x \in cands : \A y \in cands : x <= y
                 h == Head(live[i])
             IN  <<h>> \o Merge([n \in 1..Len(live) |->
                                   IF Head(live[n]) = h THEN Tail(live[n])
                                   ELSE live[n]])

RECURSIVE mro(_)
\* cls.__mro__
mro(c) ==
    IF c = "object" THEN <<"object">>
    ELSE LET bs == classes[c].bases
         IN  <<c>> \o Merge([i \in 1..Len(bs) |-> mro(bs[i])] \o <<bs>>)

RECURSIVE collect(_)
\* The loop of _get_base_template over a tail of the resolution order:
\* stops at Ctx, appends each docstring that is present.
collect(m) ==
    IF m = <<>> \/ Head(m) = "Ctx" THEN <<>>
    ELSE (IF classes[Head(m)].doc # <<>>
          THEN <<cleandoc(classes[Head(m)].doc)>> ELSE <<>>)
         \o collect(Tail(m))

get_base_template_mutant_own(c) == join(collect(mro(c)))

\* Ctx._get_base_template, for an instance of type c
get_base_template(c) == join(collect(Tail(mro(c))))

\* Ctx._get_instance_notes
get_instance_notes(c) ==
    IF classes[c].doc # <<>> THEN cleandoc(classes[c].doc) ELSE <<>>

\* jinja2.meta.find_undeclared_variables
find_undeclared_variables(toks) ==
    {toks[i].s : i \in {j \in 1..Len(toks) : toks[j].t \in {"var", "block"}}}

------------------------------------------------------------------------------
(* Values.                                                                  *)

S(s) == [k |-> "str", s |-> s, items |-> <<>>]
I(digits) == [k |-> "int", s |-> digits, items |-> <<>>]
D(pairs) == [k |-> "dict", s |-> "", items |-> pairs]
Li(xs) == [k |-> "list", s |-> "", items |-> xs]
Obj(i) == [k |-> "obj", s |-> i, items |-> <<>>]
Mark(s) == [k |-> "mark", s |-> s, items |-> <<>>]
\* a str given by its text
Text(toks) == [k |-> "text", s |-> "", items |-> toks]
\* None
NoneV == Mark("None")
\* a type used as an annotation, such as float
Ty(s) == [k |-> "type", s |-> s, items |-> <<>>]
KV(key, val) == [key |-> key, val |-> val]
EmptyCtx == D(<<>>)

Keys(d) == {d.items[i].key : i \in 1..Len(d.items)}
Lookup(d, key) == (CHOOSE i \in 1..Len(d.items) : d.items[i].key = key)
Get(d, key) == d.items[Lookup(d, key)].val
\* d[key] = val on a Python dict: insertion order is kept.
Put(d, key, val) ==
    IF key \in Keys(d)
    THEN [d EXCEPT !.items[Lookup(d, key)] = KV(key, val)]
    ELSE [d EXCEPT !.items = Append(@, KV(key, val))]

\* Every name of the model, in the order Python's sorted() gives (code points).
NameOrder ==
    << "Alias", "Child", "ComplexCtx", "Ctx", "Feature", "LeafMethods", "LocatedApi",
       "MissingFooReq", "MyFeature", "MySpec", "NeedsArg", "RecursiveCtx",
       "Requirement", "Spec", "__annotations__", "__dict__", "__init__", "_do_ctx",
       "_get_base_template", "_get_instance_notes", "_get_source_info", "_helper",
       "_in_ctx", "_to_xml_element", "a-b", "a_a", "again", "api_name", "check",
       "constraints", "ctx", "dashed-key", "data", "date", "dbpath", "description",
       "end_line", "endpoint_a", "endpoint_b", "extra", "feature_name", "fields",
       "file", "foo", "key1", "key2", "limit", "lookup", "me", "methods",
       "missing_method", "model_name", "my_func", "name", "nested", "other", "owner",
       "params", "peer", "render_xml", "req_id", "result", "source_ref", "start_line",
       "sys", "title", "to_xml_element", "unit", "val", "value" >>

\* sorted(a_set)
sorted_set(names) == SelectSeq(NameOrder, LAMBDA n : n \in names)

\* name.replace('-', '_')
replace_dash_mutant_keep(n) == n

replace_dash(n) ==
    CASE n = "a-b" -> "a_b"
      [] n = "dashed-key" -> "dashed_key"
      [] OTHER -> n

\* name.startswith('_')
startswith_underscore(n) ==
    n \in { "__annotations__", "__dict__", "__init__", "_helper", "_do_ctx", "_get_base_template", "_get_instance_notes",
            "_get_source_info", "_in_ctx", "_to_xml_element" }

------------------------------------------------------------------------------
(* The declared types of the running program.                               *)

\* What a member of a type does when it is read or called.
Beh(kind, val, op, target) ==
    [kind |-> kind, val |-> val, op |-> op, target |-> target]
Returns(v) == Beh("ret", v, "", "")
ClsName == Beh("clsname", S(""), "", "")
Raises(type) == Beh("raise", S(type), "", "")
Unimplemented == Raises("UnimplementedMethodError")
Calls(op, target) == Beh("callback", S(""), op, target)
Internal == Beh("internal", S(""), "", "")
\* a class attribute that is no function
Holds(v) == Beh("value", v, "", "")
\* LeafMethods.methods
ListsMethods == Beh("methods", S(""), "", "")
\* DataSchema.fields: return self.__class__.__annotations__
Annotations == Beh("annotations", S(""), "", "")

Type(bases, doc, members, file) ==
    [bases |-> bases, doc |-> doc, members |-> members, file |-> file]

NoMembers == [n \in {} |-> Internal]

LibFile == "libspec/spec.py"
TestFile == "tests/test_spec.py"
XmlTestFile == "tests/test_xml_render.py"
ReqTestFile == "tests/test_missing_requirement_variable.py"

ComplexData ==
    D(<< KV("key1", S("value1")),
         KV("key2", Li(<< I("1"), I("2"), D(<<KV("nested", S("val"))>>) >>)),
         KV("dashed-key", S("ok")) >>)

\* value: float / unit : str
StateFields == D(<<KV("value", Ty("float")), KV("unit", Ty("str"))>>)

Program ==
    [ object |-> Type(<<>>, <<L("The base class of the class hierarchy.")>>,
                      NoMembers, ""),
      Ctx |-> Type(<<"object">>, <<>>,
                   [n \in { "_get_base_template", "_get_instance_notes",
                            "_get_source_info", "ctx", "_do_ctx",
                            "_to_xml_element", "render_xml",
                            "to_xml_element" } |-> Internal],
                   LibFile),
      GrandParent |-> Type(<<"Ctx">>, <<NL, L("Header"), NL>>, NoMembers, TestFile),
      Parent |-> Type(<<"GrandParent">>, <<NL, L("Body"), NL>>, NoMembers, TestFile),
      Child |-> Type(<<"Parent">>, <<NL, L("Footer notes"), NL>>, NoMembers, TestFile),
      BrokenTemplate |-> Type(<<"Ctx">>, <<NL, V("missing_method"), NL>>,
                              NoMembers, TestFile),
      BrokenSpec |-> Type(<<"BrokenTemplate">>, <<>>, NoMembers, TestFile),
      Orphan |-> Type(<<"BrokenTemplate">>, <<>>, NoMembers, ""),
      Requirement |-> Type(<<"Ctx">>,
                           <<NL, L("Requirement"), NL, L("TITLE: "), V("title"),
                             NL, L("REQUIREMENT-ID: "), V("req_id"), NL, NL,
                             L("Insert REQUIREMENT-ID into any source code"), NL>>,
                           ("title" :> ClsName) @@ ("req_id" :> ClsName),
                           LibFile),
      Strict |-> Type(<<"Requirement">>, <<>>,
                      ("check" :> Raises("RuntimeError")), ""),
      MissingFooReq |-> Type(<<"Requirement">>,
                             <<NL, L("Leaf Template"), NL, L("Value: "), V("foo"), NL>>,
                             NoMembers, ReqTestFile),
      RecursiveCtx |-> Type(<<"Ctx">>, <<V("me")>>,
                            ("me" :> Calls("render_xml", "self"))
                            @@ ("again" :> Calls("to_xml_element", "self")),
                            XmlTestFile),
      NodeTemplate |-> Type(<<"Ctx">>, <<L("Peer: "), V("other")>>, NoMembers, ""),
      Node |-> Type(<<"NodeTemplate">>, <<>>,
                    ("other" :> Calls("render_xml", "peer")), ""),
      FieldsTemplate |-> Type(<<"Ctx">>, <<L("FIELDS: "), V("fields")>>, NoMembers, ""),
      NoFields |-> Type(<<"FieldsTemplate">>, <<>>, NoMembers, ""),
      Feature |-> Type(<<"Ctx">>,
                       <<NL, L("Feature Specification: "), V("feature_name"), NL,
                         L("Feature Branch: [feat-"), V("feature_name"), L("]"), NL>>,
                       ("feature_name" :> ClsName) @@ ("date" :> Unimplemented)
                       @@ ("description" :> Unimplemented),
                       LibFile),
      Dated |-> Type(<<"Feature">>,
                     <<L("Created: "), V("date"), L(" by "), V("owner")>>,
                     NoMembers, ""),
      DatedLeaf |-> Type(<<"Dated">>, <<>>, NoMembers, ""),
      MyFeature |-> Type(<<"Feature">>, <<L("Doc")>>,
                         ("val" :> Returns(I("1"))), XmlTestFile),
      ComplexCtx |-> Type(<<"Ctx">>, <<L("Doc")>>,
                          ("data" :> Returns(ComplexData)), XmlTestFile),
      Spec |-> Type(<<"object">>, <<>>,
                    [n \in {"modules", "generate_xml", "write_xml"} |-> Internal],
                    LibFile),
      MySpec |-> Type(<<"Spec">>, <<>>, NoMembers, ReqTestFile),
      NeedsArg |-> Type(<<"Ctx">>, <<L("Doc")>>,
                        ("__init__" :> Raises("TypeError")), ""),
      DataSchema |-> Type(<<"Ctx">>,
                          <<NL, L("DATA-MODEL: "), V("model_name"), NL,
                            L("FIELDS:"), NL, FieldsBlock, NL>>,
                          ("model_name" :> ClsName) @@ ("fields" :> Annotations),
                          LibFile),
      TemperatureState |-> Type(<<"DataSchema">>,
                                <<L("Represents a temperature value and unit")>>,
                                "__annotations__" :> Returns(StateFields), ""),
      EmptyState |-> Type(<<"DataSchema">>, <<L("Nothing to hold")>>, NoMembers, ""),
      ListState |-> Type(<<"DataSchema">>, <<>>,
                         "fields" :> Returns(Li(<<S("value"), S("unit")>>)), ""),
      SQLite3 |-> Type(<<"DataSchema">>,
                       <<NL, L("SQLite3 Database."), NL,
                         L("The database file should be located at "),
                         V("dbpath"), NL>>,
                       NoMembers, LibFile),
      Store |-> Type(<<"SQLite3">>, <<>>,
                     "__annotations__" :> Returns(StateFields), ""),
      LeafMethods |-> Type(<<"object">>, <<>>, "methods" :> ListsMethods, LibFile),
      LocatedApi |-> Type(<<"Ctx", "LeafMethods">>, <<>>,
                          ("my_func" :> Returns(NoneV))
                          @@ ("lookup" :> Returns(S("found")))
                          @@ ("limit" :> Holds(I("5")))
                          @@ ("__dict__" :> Holds(Li(<<S("my_func"), S("lookup"),
                                                       S("limit")>>))),
                          TestFile),
      BareTemplate |-> Type(<<"Ctx">>, <<L("FIELDS:"), NL, FieldsBlock>>,
                            NoMembers, ""),
      Bare |-> Type(<<"BareTemplate">>, <<>>,
                    "__annotations__" :> Returns(StateFields), "") ]

\* The instances the program renders, and each one's type and attributes.
Instances ==
    { "child", "broken", "orphan", "missingfoo", "strict", "rec", "n1", "n2",
      "nofields", "dated", "myfeature", "complex" }

ClassOf ==
    [ child |-> "Child", broken |-> "BrokenSpec", orphan |-> "Orphan",
      missingfoo |-> "MissingFooReq", strict |-> "Strict",
      rec |-> "RecursiveCtx", n1 |-> "Node", n2 |-> "Node",
      nofields |-> "NoFields", dated |-> "DatedLeaf",
      myfeature |-> "MyFeature", complex |-> "ComplexCtx",
      complex2 |-> "ComplexCtx", feature |-> "Feature",
      requirement |-> "Requirement", needsarg |-> "NeedsArg",
      temperature |-> "TemperatureState", emptystate |-> "EmptyState",
      liststate |-> "ListState", store |-> "Store", bare |-> "Bare",
      myapi |-> "MyApi", located |-> "LocatedApi" ]

\* The instances module_specs() creates, one for each name it finds a type under.
Created ==
    [ Alias |-> "complex2", Child |-> "child", ComplexCtx |-> "complex",
      Feature |-> "feature", MissingFooReq |-> "missingfoo",
      MyFeature |-> "myfeature", NeedsArg |-> "needsarg",
      RecursiveCtx |-> "rec", Requirement |-> "requirement",
      LocatedApi |-> "located" ]

\* instances of the data schemas
Schemas == {"temperature", "emptystate", "liststate", "store", "bare"}

Objects == Instances \cup Range(Created) \cup Schemas

\* self.peer, for the instances that have one
Peer == [ n1 |-> "n2", n2 |-> "n1" ]

\* the instance's own __dict__ (other than _in_ctx)
InstanceAttrs(i) == IF i \in DOMAIN Peer THEN {"peer"} ELSE {}

\* the types of the resolution order that define `name`
Definers(c, name) ==
    SelectSeq(mro(c), LAMBDA k : name \in DOMAIN classes[k].members)

\* hasattr(self, name)
hasattr(i, name) ==
    \/ name \in InstanceAttrs(i)
    \/ name = "_in_ctx" /\ in_ctx[i] # "absent"
    \/ Definers(ClassOf[i], name) # <<>>

\* type(self).<name>, found along the resolution order
class_member(i, name) == classes[Head(Definers(ClassOf[i], name))].members[name]

\* dir(self), public and private names alike
dir(i) ==
    InstanceAttrs(i)
    \cup (IF in_ctx[i] # "absent" THEN {"_in_ctx"} ELSE {})
    \cup UNION {DOMAIN classes[k].members : k \in Range(mro(ClassOf[i]))}

------------------------------------------------------------------------------
(* Rendering and the XML tree.                                              *)

Elem(tag, attrs, text, children) ==
    [tag |-> tag, attrs |-> attrs, text |-> text, children |-> children]
Attr(name, value) == [name |-> name, value |-> value]
Piece(v) == [t |-> "val", s |-> "", v |-> v]

\* str(value): a str is itself, an int its digits, anything else its repr
str(v) ==
    CASE v.k \in {"str", "text"} -> v
      [] v.k = "int" -> S(v.s)
      [] v.k = "xml" -> v
      [] OTHER -> [k |-> "repr", s |-> v.k, items |-> <<v>>]

RECURSIVE Flat(_)
\* the lines a {% for %} loop renders, one after the other
Flat(parts) ==
    IF parts = <<>> THEN <<>>
    ELSE IF Len(parts) = 1 THEN parts[1]
    ELSE LET h == Len(parts) \div 2
         IN  Flat(SubSeq(parts, 1, h)) \o Flat(SubSeq(parts, h + 1, Len(parts)))

\* the block of the DataSchema template: one line for each item of `fields`,
\* in the mapping's own order, when it is a mapping; the fallback line otherwise
fields_block(ctx) ==
    IF "fields" \in Keys(ctx) /\ Get(ctx, "fields").k = "dict"
    THEN LET fs == Get(ctx, "fields").items
         IN  Flat([n \in 1..Len(fs) |->
                      <<L("- "), Piece(S(fs[n].key)), L(": "),
                        Piece(str(fs[n].val)), NL>>])
    ELSE <<L("- No fields defined."), NL>>

\* jinja2 Template(text).render(**ctx): an unbound name renders as nothing
RECURSIVE render(_, _)
render(toks, ctx) ==
    IF toks = <<>> THEN <<>>
    ELSE (IF Head(toks).t = "block" THEN fields_block(ctx)
          ELSE IF Head(toks).t # "var" THEN <<Head(toks)>>
          ELSE IF Head(toks).s \in Keys(ctx)
               THEN <<Piece(str(Get(ctx, Head(toks).s)))>>
               ELSE <<>>)
         \o render(Tail(toks), ctx)

dict_keys_mutant_insertion_order(value) ==
    [i \in 1..Len(value.items) |-> value.items[i].key]

\* for k in sorted(value.keys())
dict_keys(value) == sorted_set(Keys(value))

RECURSIVE to_xml(_, _)
\* Ctx._to_xml_element(name, value)
to_xml(name, value) ==
    IF value.k = "dict"
    THEN LET ks == SelectSeq(dict_keys(value),
                             LAMBDA k : k \notin {"start_line", "end_line"})
         IN  Elem(name, <<>>, <<>>,
                  [i \in 1..Len(ks) |-> to_xml(replace_dash(ks[i]), Get(value, ks[i]))])
    ELSE IF value.k = "list"
    THEN Elem(name, <<>>, <<>>,
              [i \in 1..Len(value.items) |-> to_xml("item", value.items[i])])
    ELSE Elem(name, <<>>, <<Piece(str(value))>>, <<>>)

\* for k in sorted(all_ctx_data.keys())
context_keys(all_ctx_data) == sorted_set(Keys(all_ctx_data))

\* the context node built at the end of Ctx.to_xml_element
context_elem(all_ctx_data) ==
    LET ks == context_keys(all_ctx_data)
    IN  Elem("context", <<>>, <<>>,
             [i \in 1..Len(ks) |->
                 to_xml(replace_dash(ks[i]), Get(all_ctx_data, ks[i]))])

\* Ctx._get_source_info() for the instance's own type: None when the source
\* of the type cannot be read
get_source_info(c) ==
    IF classes[c].file = "" THEN <<>>
    ELSE <<[file |-> classes[c].file, name |-> c]>>

specification_elem_mutant_always_description(c, ctx_data, all_ctx_data) ==
    LET src == get_source_info(c)
        instance_notes == get_instance_notes(c)
    IN  Elem("specification", <<Attr("type", c)>>, <<>>,
             (IF src # <<>>
              THEN <<Elem("source",
                          <<Attr("target", src[1].name), Attr("file", src[1].file)>>,
                          <<>>, <<>>)>>
              ELSE <<>>)
             \o <<Elem("description", <<>>,
                       strip(render(get_base_template(c), ctx_data)), <<>>)>>
             \o (IF instance_notes # <<>>
                 THEN <<Elem("notes", <<>>,
                             strip(render(instance_notes, all_ctx_data)), <<>>)>>
                 ELSE <<>>)
             \o <<context_elem(all_ctx_data)>>)

\* the specification node built by Ctx.to_xml_element from the two contexts
specification_elem(c, ctx_data, all_ctx_data) ==
    LET src == get_source_info(c)
        rendered_body == strip(render(get_base_template(c), ctx_data))
        instance_notes == get_instance_notes(c)
    IN  Elem("specification", <<Attr("type", c)>>, <<>>,
             (IF src # <<>>
              THEN <<Elem("source",
                          <<Attr("target", src[1].name), Attr("file", src[1].file)>>,
                          <<>>, <<>>)>>
              ELSE <<>>)
             \o (IF rendered_body # <<>>
                 THEN <<Elem("description", <<>>, rendered_body, <<>>)>> ELSE <<>>)
             \o (IF instance_notes # <<>>
                 THEN <<Elem("notes", <<>>,
                             strip(render(instance_notes, ctx_data)), <<>>)>>
                 ELSE <<>>)
             \o <<context_elem(all_ctx_data)>>)

XmlOf(e) == [k |-> "xml", s |-> "", items |-> <<e>>]
ElemVal(e) == [k |-> "elem", s |-> "", items |-> <<e>>]

------------------------------------------------------------------------------
(* The call stack.                                                          *)

MaxCalls == 2
StackCap == 16

Frame(op, self, tonly) ==
    [op |-> op, self |-> self, pc |-> "call", tonly |-> tonly, todo |-> <<>>,
     context |-> EmptyCtx, cur |-> "", phase |-> "", data |-> EmptyCtx,
     specs |-> <<>>]

NoRet == [kind |-> "none", v |-> S(""), op |-> "", self |-> ""]
Val(v, f) == [kind |-> "val", v |-> v, op |-> f.op, self |-> f.self]
Exc(e, f) == [kind |-> "exc", v |-> e, op |-> f.op, self |-> f.self]

top == stack[Len(stack)]
Pop == SubSeq(stack, 1, Len(stack) - 1)
SetTop(f) == [stack EXCEPT ![Len(stack)] = f]
At(op, pc) == stack # <<>> /\ top.op = op /\ top.pc = pc

\* the exception objects
Exception(type, var, cls, loc, method) ==
    [k |-> "exc", s |-> type,
     items |-> <<[var |-> var, cls |-> cls, loc |-> loc, method |-> method]>>]

missing_member_error_mutant_declarer(i, var_name) ==
    LET hit == SelectSeq(mro(ClassOf[i]),
                         LAMBDA k : V(var_name) \in Range(classes[k].doc))
        c == IF hit = <<>> THEN ClassOf[i] ELSE Head(hit)
        src == get_source_info(c)
        loc == IF src # <<>> THEN [file |-> src[1].file, line_of |-> c]
               ELSE [file |-> "unknown location", line_of |-> ""]
    IN  Exception("AttributeError", var_name, c, loc, replace_dash(var_name))

\* the AttributeError raised by get_member
missing_member_error(i, var_name) ==
    LET c == ClassOf[i]
        src == get_source_info(c)
        loc == IF src # <<>> THEN [file |-> src[1].file, line_of |-> c]
               ELSE [file |-> "unknown location", line_of |-> ""]
    IN  Exception("AttributeError", var_name, c, loc, replace_dash(var_name))

unimplemented_error_mutant_declarer(i, name) ==
    Exception("UnimplementedMethodError", "", Head(Definers(ClassOf[i], name)),
              [file |-> "", line_of |-> ""], name)

\* UnimplementedMethodError(): names the calling method and type(self)
unimplemented_error(i, name) ==
    Exception("UnimplementedMethodError", "", ClassOf[i],
              [file |-> "", line_of |-> ""], name)

Swallowed_mutant_none == {}

\* the exceptions the extended loop of _do_ctx swallows
Swallowed == {"TypeError", "ValueError", "UnimplementedMethodError"}

guard_set_mutant_never(i) == FALSE

guard_set_mutant_global(i) == \E j \in Instances : in_ctx[j] = "true"

guard_set_mutant_present(i) == in_ctx[i] # "absent"

\* getattr(self, '_in_ctx', False)
guard_set(i) == in_ctx[i] = "true"

reentrant_flag_mutant_clears(old) == "false"

\* Ctx.ctx: `return {}` of the guard test comes before the try block, so the
\* finally clause does not run and the flag is left as it is
reentrant_flag(old) == old

finally_flag_mutant_success_only(old, r) == IF r.kind = "exc" THEN old ELSE "false"

\* finally: self._in_ctx = False
finally_flag(old, r) == "false"

scanned_text_mutant_base_only(c) == get_base_template(c)

\* combined = f"{doc}\n{notes}"
scanned_text(c) == get_base_template(c) \o <<NL>> \o get_instance_notes(c)

\* if 'fields' in expected_vars and hasattr(self, 'fields')
fields_first(i, expected_vars) ==
    IF "fields" \in expected_vars /\ hasattr(i, "fields") THEN <<"fields">> ELSE <<>>

\* cls.__annotations__: the table of the fields the type itself declares, in
\* the order of their declaration; empty when it declares none
annotations(c) ==
    IF "__annotations__" \in DOMAIN classes[c].members
    THEN classes[c].members["__annotations__"].val
    ELSE EmptyCtx

\* inspect.signature(attr).parameters and attr.__doc__ of the functions that
\* have parameters besides the receiver, or a docstring
Functions ==
    [ endpoint_a |-> [params |-> <<"self">>, doc |-> <<NL, L("Doc A"), NL>>],
      endpoint_b |-> [params |-> <<"self", "x">>, doc |-> <<>>],
      lookup |-> [params |-> <<"self", "key">>, doc |-> <<L("Find it")>>] ]
FunctionOf(name) ==
    IF name \in DOMAIN Functions THEN Functions[name]
    ELSE [params |-> <<"self">>, doc |-> <<>>]

\* the parameters a bound method still needs: signature(member).parameters
parameters(name) == Tail(FunctionOf(name).params)

\* cls.__dict__: the names the type itself declares, in declaration order
own_dict(c) ==
    IF "__dict__" \in DOMAIN classes[c].members
    THEN LET d == classes[c].members["__dict__"].val.items
         IN  [n \in 1..Len(d) |-> d[n].s]
    ELSE <<>>

isfunction_mutant_any(b) == TRUE

\* inspect.isfunction(attr)
isfunction(b) == b.kind # "value"

\* LeafMethods.methods: a descriptor for each public function the type of the
\* instance declares itself; a call that raises ends it with that exception
methods(i) ==
    LET c == ClassOf[i]
        names == SelectSeq(own_dict(c),
                           LAMBDA n : /\ ~startswith_underscore(n)
                                      /\ isfunction(classes[c].members[n]))
        params(n) == SelectSeq(FunctionOf(n).params, LAMBDA q : q # "self")
        doc(n) == IF FunctionOf(n).doc # <<>> THEN FunctionOf(n).doc
                  ELSE <<L("No description provided")>>
        k(n) == LET b == classes[c].members[n]
                IN  IF b.kind = "clsname" THEN S(c) ELSE b.val
        source_ref(n) ==
            IF classes[c].file = "" THEN NoneV
            ELSE D(<< KV("file", S(classes[c].file)), KV("start_line", Mark("lineno")),
                      KV("end_line", Mark("lineno")), KV("name", S(n)) >>)
        raising == SelectSeq(names, LAMBDA n : classes[c].members[n].kind = "raise")
    IN  IF raising # <<>>
        THEN [kind |-> "exc", op |-> "methods", self |-> i,
              v |-> Exception(classes[c].members[Head(raising)].val.s, "", "",
                              [file |-> "", line_of |-> ""], Head(raising))]
        ELSE [kind |-> "val", op |-> "methods", self |-> i,
              v |-> Li([n \in 1..Len(names) |->
                          D(<< KV("name", S(names[n])),
                               KV("params", Li([j \in 1..Len(params(names[n])) |->
                                                   S(params(names[n])[j])])),
                               KV("description", Text(cleandoc(doc(names[n])))),
                               KV("result", k(names[n])),
                               KV("source_ref", source_ref(names[n])) >>)])]

\* The outcome of reading member `name` of instance i and calling it when it is
\* callable: a value, an exception, or a call into another frame.
Outcome(kind, v, op, target) == [kind |-> kind, v |-> v, op |-> op, target |-> target]

use_member(i, name) ==
    IF name \in InstanceAttrs(i) THEN Outcome("val", Obj(Peer[i]), "", "")
    ELSE IF name = "_in_ctx" THEN Outcome("val", S(in_ctx[i]), "", "")
    ELSE LET b == class_member(i, name)
         IN  IF b.kind # "value" /\ parameters(name) # <<>>
             THEN \* member() without the arguments it requires
                  Outcome("raise",
                          Exception("TypeError", "", "", [file |-> "", line_of |-> ""], name),
                          "", "")
             ELSE
             CASE b.kind = "ret" -> Outcome("invoke", b.val, "", "")
               [] b.kind = "clsname" -> Outcome("invoke", S(ClassOf[i]), "", "")
               [] b.kind = "raise" ->
                    Outcome("raise",
                            IF b.val.s = "UnimplementedMethodError"
                            THEN unimplemented_error(i, name)
                            ELSE Exception(b.val.s, "", "", [file |-> "", line_of |-> ""], name),
                            "", "")
               [] b.kind = "value" -> Outcome("val", b.val, "", "")
               [] b.kind = "methods" ->
                    LET r == methods(i)
                    IN  Outcome(IF r.kind = "exc" THEN "raise" ELSE "invoke", r.v, "", "")
               [] b.kind = "annotations" ->
                    Outcome("invoke", annotations(ClassOf[i]), "", "")
               [] b.kind = "callback" ->
                    Outcome("call", S(""), b.op,
                            IF b.target = "self" THEN i ELSE Peer[i])
               [] OTHER -> Outcome("invoke", Mark(b.kind), "", "")

extended_member_mutant_call(i, name) == use_member(i, name)

\* the extended loop of _do_ctx: a callable member is called only when
\* len(signature(member).parameters) == 0, and passed over otherwise
extended_member(i, name) ==
    IF /\ name \notin InstanceAttrs(i) /\ name # "_in_ctx"
       /\ class_member(i, name).kind # "value"
       /\ parameters(name) # <<>>
    THEN Outcome("skip", S(""), "", "")
    ELSE use_member(i, name)

get_member_mutant_default_empty(i, var_name) ==
    IF hasattr(i, replace_dash(var_name))
    THEN use_member(i, replace_dash(var_name))
    ELSE Outcome("val", S(""), "", "")

\* get_member(var_name) inside _do_ctx
get_member(i, var_name) ==
    IF hasattr(i, replace_dash(var_name))
    THEN use_member(i, replace_dash(var_name))
    ELSE Outcome("raise", missing_member_error(i, var_name), "", "")

skipped_mutant_rebinds(name, context) ==
    \/ startswith_underscore(name)
    \/ name \in {"ctx", "render", "render_xml", "to_xml_element"}

\* the names the extended loop of _do_ctx passes over without reading them
skipped(name, context) ==
    \/ startswith_underscore(name)
    \/ name \in {"ctx", "render", "render_xml", "to_xml_element"}
    \/ name \in Keys(context)

RECURSIVE skip(_, _)
skip(todo, context) ==
    IF todo = <<>> THEN <<>>
    ELSE IF skipped(Head(todo), context) THEN skip(Tail(todo), context)
    ELSE todo

\* how a call ended, without what it returned
Ended(r) == [kind |-> r.kind, op |-> r.op, self |-> r.self]

\* how the call just before a call on i ended, when it was a call on i too
EndedOn(r, i) == IF r.self = i THEN [Ended(r) EXCEPT !.op = ""] ELSE Ended(NoRet)

TopCall(i, op, tonly) ==
    /\ stack = <<>>
    /\ ncalls < MaxCalls
    /\ stack' = <<Frame(op, i, tonly)>>
    /\ ret' = NoRet
    /\ invoked' = <<>>
    /\ ncalls' = ncalls + 1
    /\ last' = EndedOn(ret, i)
    /\ UNCHANGED <<classes, disk, registry, spec_meta, prev, mods, in_ctx, tmpl, notes, xin, xout>>

\* Ctx.render_xml: root = self.to_xml_element()
RenderXmlCall ==
    /\ At("render_xml", "call")
    /\ Len(stack) < StackCap
    /\ stack' = Append(SetTop([top EXCEPT !.pc = "wait"]),
                       Frame("to_xml_element", top.self, TRUE))
    /\ UNCHANGED <<classes, disk, registry, spec_meta, prev, mods, in_ctx, ret, invoked, ncalls, last, tmpl, notes, xin, xout>>

\* Ctx.render_xml: return the pretty-printed text of the tree
RenderXmlReturn ==
    /\ At("render_xml", "wait")
    /\ ret.kind = "val"
    /\ stack' = Pop
    /\ ret' = Val(XmlOf(ret.v.items[1]), top)
    /\ UNCHANGED <<classes, disk, registry, spec_meta, prev, mods, in_ctx, invoked, ncalls, last, tmpl, notes, xin, xout>>

\* Ctx.to_xml_element: ctx_data = self.ctx()
ToXmlCall ==
    /\ At("to_xml_element", "call")
    /\ Len(stack) < StackCap
    /\ stack' = Append(SetTop([top EXCEPT !.pc = "ctx1"]),
                       Frame("ctx", top.self, TRUE))
    /\ UNCHANGED <<classes, disk, registry, spec_meta, prev, mods, in_ctx, ret, invoked, ncalls, last, tmpl, notes, xin, xout>>

\* Ctx.to_xml_element: all_ctx_data = self.ctx(template_only=False)
ToXmlCtx1 ==
    /\ At("to_xml_element", "ctx1")
    /\ ret.kind = "val"
    /\ stack' = Append(SetTop([top EXCEPT !.pc = "ctx2", !.data = ret.v]),
                       Frame("ctx", top.self, FALSE))
    /\ ret' = NoRet
    /\ UNCHANGED <<classes, disk, registry, spec_meta, prev, mods, in_ctx, invoked, ncalls, last, tmpl, notes, xin, xout>>

\* Ctx.to_xml_element: build the tree and return it
ToXmlCtx2 ==
    /\ At("to_xml_element", "ctx2")
    /\ ret.kind = "val"
    /\ stack' = Pop
    /\ ret' = Val(ElemVal(specification_elem(ClassOf[top.self], top.data, ret.v)), top)
    /\ UNCHANGED <<classes, disk, registry, spec_meta, prev, mods, in_ctx, invoked, ncalls, last, tmpl, notes, xin, xout>>

\* Ctx.ctx: the guard test, then set the flag and enter the try block
CtxEnter ==
    /\ At("ctx", "call")
    /\ IF guard_set(top.self)
       THEN /\ stack' = Pop
            /\ ret' = Val(EmptyCtx, top)
            /\ in_ctx' = [in_ctx EXCEPT ![top.self] = reentrant_flag(@)]
       ELSE /\ Len(stack) < StackCap
            /\ in_ctx' = [in_ctx EXCEPT ![top.self] = "true"]
            /\ stack' = Append(SetTop([top EXCEPT !.pc = "finally"]),
                               Frame("_do_ctx", top.self, top.tonly))
            /\ ret' = NoRet
    /\ UNCHANGED <<classes, disk, registry, spec_meta, prev, mods, invoked, ncalls, last, tmpl, notes, xin, xout>>

\* Ctx.ctx: the finally clause, on return and on exception alike
CtxExit ==
    /\ At("ctx", "finally")
    /\ ret.kind # "none"
    /\ in_ctx' = [in_ctx EXCEPT ![top.self] = finally_flag(@, ret)]
    /\ stack' = Pop
    /\ ret' = [ret EXCEPT !.op = "ctx", !.self = top.self]
    /\ UNCHANGED <<classes, disk, registry, spec_meta, prev, mods, invoked, ncalls, last, tmpl, notes, xin, xout>>

\* Ctx._do_ctx: find the expected variables
DoCtxScan ==
    /\ At("_do_ctx", "call")
    /\ LET expected_vars == find_undeclared_variables(scanned_text(ClassOf[top.self]))
       IN  stack' = SetTop([top EXCEPT
                !.pc = "run", !.phase = "bind",
                !.todo = fields_first(top.self, expected_vars)
                         \o sorted_set(expected_vars \ {"fields"})])
    /\ UNCHANGED <<classes, disk, registry, spec_meta, prev, mods, in_ctx, ret, invoked, ncalls, last, tmpl, notes, xin, xout>>

\* the effect on the _do_ctx frame of one member use with outcome o
Bound(f, name, o) ==
    CASE o.kind \in {"val", "invoke"} ->
           /\ stack' = SetTop([f EXCEPT !.context = Put(@, name, o.v),
                                        !.todo = Tail(f.todo)])
           /\ ret' = NoRet
      [] o.kind = "skip" \/ (o.kind = "raise" /\ f.phase = "extend" /\ o.v.s \in Swallowed) ->
           /\ stack' = SetTop([f EXCEPT !.todo = Tail(f.todo)])
           /\ ret' = NoRet
      [] o.kind = "raise" /\ ~(f.phase = "extend" /\ o.v.s \in Swallowed) ->
           /\ stack' = Pop
           /\ ret' = Exc(o.v, f)
      [] o.kind = "call" ->
           /\ Len(stack) + 1 < StackCap
           /\ stack' = SetTop([f EXCEPT !.pc = "store", !.cur = name])
                       \o << [Frame("accessor", f.self, TRUE) EXCEPT
                                  !.pc = "wait", !.cur = replace_dash(name)],
                             Frame(o.op, o.target, TRUE) >>
           /\ ret' = NoRet

Logged(i, name, o) ==
    IF o.kind \in {"invoke", "call"} \/ (o.kind = "raise" /\ o.v.s # "AttributeError")
    THEN Append(invoked, <<i, replace_dash(name)>>)
    ELSE invoked

\* Ctx._do_ctx: bind the next expected variable
DoCtxBind ==
    /\ At("_do_ctx", "run")
    /\ top.phase = "bind"
    /\ top.todo # <<>>
    /\ LET var == Head(top.todo)
           o == IF var = "fields" THEN use_member(top.self, "fields")
                ELSE get_member(top.self, var)
       IN  /\ Bound(top, var, o)
           /\ invoked' = Logged(top.self, var, o)
    /\ UNCHANGED <<classes, disk, registry, spec_meta, prev, mods, in_ctx, ncalls, last, tmpl, notes, xin, xout>>

extended_mode_mutant_always(template_only) == TRUE

\* Ctx._do_ctx: `if not template_only:`, the members beyond the template's
extended_mode(template_only) == ~template_only

\* Ctx._do_ctx: every expected variable is bound
DoCtxBound ==
    /\ At("_do_ctx", "run")
    /\ top.phase = "bind"
    /\ top.todo = <<>>
    /\ IF ~extended_mode(top.tonly)
       THEN /\ stack' = Pop
            /\ ret' = Val(top.context, top)
       ELSE /\ stack' = SetTop([top EXCEPT !.phase = "extend",
                                           !.todo = sorted_set(dir(top.self))])
            /\ ret' = NoRet
    /\ UNCHANGED <<classes, disk, registry, spec_meta, prev, mods, in_ctx, invoked, ncalls, last, tmpl, notes, xin, xout>>

\* Ctx._do_ctx: the loop over sorted(dir(self)) of the extended mode
DoCtxExtend ==
    /\ At("_do_ctx", "run")
    /\ top.phase = "extend"
    /\ LET rest == skip(top.todo, top.context)
           f == [top EXCEPT !.todo = rest]
       IN  IF rest = <<>>
           THEN /\ stack' = Pop
                /\ ret' = Val(top.context, top)
                /\ invoked' = invoked
           ELSE LET o == extended_member(top.self, Head(rest))
                IN  /\ Bound(f, Head(rest), o)
                    /\ invoked' = Logged(top.self, Head(rest), o)
    /\ UNCHANGED <<classes, disk, registry, spec_meta, prev, mods, in_ctx, ncalls, last, tmpl, notes, xin, xout>>

\* Ctx._do_ctx: an accessor that made a call of its own has come back
DoCtxStore ==
    /\ At("_do_ctx", "store")
    /\ ret.kind # "none"
    /\ IF ret.kind = "val"
       THEN /\ stack' = SetTop([top EXCEPT !.pc = "run", !.todo = Tail(top.todo),
                                           !.context = Put(@, top.cur, ret.v)])
            /\ ret' = NoRet
       ELSE IF top.phase = "extend" /\ ret.v.s \in Swallowed
       THEN /\ stack' = SetTop([top EXCEPT !.pc = "run", !.todo = Tail(top.todo)])
            /\ ret' = NoRet
       ELSE /\ stack' = Pop
            /\ ret' = [ret EXCEPT !.op = "_do_ctx", !.self = top.self]
    /\ UNCHANGED <<classes, disk, registry, spec_meta, prev, mods, in_ctx, invoked, ncalls, last, tmpl, notes, xin, xout>>

\* an accessor returns what the call it made returned
AccessorReturn ==
    /\ At("accessor", "wait")
    /\ ret.kind = "val"
    /\ stack' = Pop
    /\ ret' = Val(ret.v, top)
    /\ UNCHANGED <<classes, disk, registry, spec_meta, prev, mods, in_ctx, invoked, ncalls, last, tmpl, notes, xin, xout>>

\* an exception leaves a frame that does not handle it
Unwind ==
    /\ stack # <<>>
    /\ top.op \in {"render_xml", "to_xml_element", "accessor"}
    /\ top.pc # "call"
    /\ ret.kind = "exc"
    /\ stack' = Pop
    /\ ret' = [ret EXCEPT !.op = top.op, !.self = top.self]
    /\ UNCHANGED <<classes, disk, registry, spec_meta, prev, mods, in_ctx, invoked, ncalls, last, tmpl, notes, xin, xout>>

Blank == <<>>

\* an output location nothing was written to yet
NoDisk == [dirs |-> {}, files |-> {}]

\* the callables a program decorates: two functions and a class
Callables == {"my_method", "exploratory_method", "MyClass"}

\* no callable has a _spec_meta attribute yet
NoMeta == [f \in Callables |-> Mark("absent")]

Init ==
    /\ classes = Program
    /\ in_ctx = [i \in Instances |-> "absent"]
    /\ stack = <<>>
    /\ ret = NoRet
    /\ invoked = <<>>
    /\ ncalls = 0
    /\ last = Ended(NoRet)
    /\ tmpl = Blank
    /\ notes = Blank
    /\ xin = EmptyCtx
    /\ xout = Elem("", <<>>, <<>>, <<>>)
    /\ prev = NoRet
    /\ disk = NoDisk
    /\ registry = <<>>
    /\ spec_meta = NoMeta
    /\ mods = <<>>

Next ==
    \/ \E i \in Instances : \E op \in {"to_xml_element", "render_xml"} :
           TopCall(i, op, TRUE)
    \/ \E i \in Instances : \E tonly \in BOOLEAN : TopCall(i, "ctx", tonly)
    \/ RenderXmlCall
    \/ RenderXmlReturn
    \/ ToXmlCall
    \/ ToXmlCtx1
    \/ ToXmlCtx2
    \/ CtxEnter
    \/ CtxExit
    \/ DoCtxScan
    \/ DoCtxBind
    \/ DoCtxBound
    \/ DoCtxExtend
    \/ DoCtxStore
    \/ AccessorReturn
    \/ Unwind

Spec == Init /\ [][Next]_vars

------------------------------------------------------------------------------
(* The same serialization, repeated on one instance.                        *)

\* one statement group of render_xml, to_xml_element, ctx or _do_ctx
Body ==
    \/ RenderXmlCall
    \/ RenderXmlReturn
    \/ ToXmlCall
    \/ ToXmlCtx1
    \/ ToXmlCtx2
    \/ CtxEnter
    \/ CtxExit
    \/ DoCtxScan
    \/ DoCtxBind
    \/ DoCtxBound
    \/ DoCtxExtend
    \/ DoCtxStore
    \/ AccessorReturn
    \/ Unwind

\* x.render_xml() (or x.to_xml_element()), and then the same call on x again
RepeatCall(i, op) ==
    /\ stack = <<>>
    /\ ncalls < MaxCalls
    /\ ncalls > 0 => (ret.op = op /\ ret.self = i)
    /\ stack' = <<Frame(op, i, TRUE)>>
    /\ ret' = NoRet
    /\ invoked' = <<>>
    /\ ncalls' = ncalls + 1
    /\ last' = EndedOn(ret, i)
    /\ prev' = ret
    /\ UNCHANGED <<classes, disk, registry, spec_meta, mods, in_ctx, tmpl, notes, xin, xout>>

NextRepeat ==
    \/ \E i \in Instances : \E op \in {"to_xml_element", "render_xml"} :
           RepeatCall(i, op)
    \/ Body

SpecRepeat == Init /\ [][NextRepeat]_vars

------------------------------------------------------------------------------
(* Data schemas: the `fields` placeholder.                                  *)

InitSchema ==
    /\ classes = Program
    /\ in_ctx = [i \in Objects |-> "absent"]
    /\ stack = <<>>
    /\ ret = NoRet
    /\ invoked = <<>>
    /\ ncalls = 0
    /\ last = Ended(NoRet)
    /\ tmpl = Blank
    /\ notes = Blank
    /\ xin = EmptyCtx
    /\ xout = Elem("", <<>>, <<>>, <<>>)
    /\ prev = NoRet
    /\ disk = NoDisk
    /\ registry = <<>>
    /\ spec_meta = NoMeta
    /\ mods = <<>>

\* no accessor of a schema calls back into the library, so DoCtxStore and
\* AccessorReturn have no part here
NextSchema ==
    \/ \E i \in Schemas : \E op \in {"to_xml_element", "render_xml"} :
           TopCall(i, op, TRUE)
    \/ \E i \in Schemas : \E tonly \in BOOLEAN : TopCall(i, "ctx", tonly)
    \/ RenderXmlCall
    \/ RenderXmlReturn
    \/ ToXmlCall
    \/ ToXmlCtx1
    \/ ToXmlCtx2
    \/ CtxEnter
    \/ CtxExit
    \/ DoCtxScan
    \/ DoCtxBind
    \/ DoCtxBound
    \/ DoCtxExtend
    \/ Unwind

SpecSchema == InitSchema /\ [][NextSchema]_vars

\* a caller adds an entry to the mapping ctx() returned to it: the mapping was
\* made by this call (context = {}), nothing else refers to it
MutateMapping ==
    /\ stack = <<>>
    /\ ret.kind = "val"
    /\ ret.op = "ctx"
    /\ "extra" \notin Keys(ret.v)
    /\ ret' = [ret EXCEPT !.v = Put(@, "extra", S("added"))]
    /\ last' = [last EXCEPT !.op = "mutated"]
    /\ UNCHANGED <<classes, disk, registry, spec_meta, prev, mods, in_ctx, stack,
                   invoked, ncalls, tmpl, notes, xin, xout>>

\* a caller adds an entry to the value under `fields` of the mapping ctx()
\* returned to it: DataSchema.fields returned self.__class__.__annotations__,
\* the table of the type itself
MutateFields ==
    /\ stack = <<>>
    /\ ret.kind = "val"
    /\ ret.op = "ctx"
    /\ "fields" \in Keys(ret.v)
    /\ LET c == ClassOf[ret.self]
       IN  /\ class_member(ret.self, "fields").kind = "annotations"
           /\ "__annotations__" \in DOMAIN classes[c].members
           /\ "extra" \notin Keys(annotations(c))
           /\ classes' = [classes EXCEPT
                              ![c].members["__annotations__"].val =
                                  Put(@, "extra", Ty("int"))]
           /\ ret' = [ret EXCEPT !.v = Put(@, "fields",
                                           Put(annotations(c), "extra", Ty("int")))]
    /\ last' = [last EXCEPT !.op = "mutated"]
    /\ UNCHANGED <<disk, registry, spec_meta, prev, mods, in_ctx, stack,
                   invoked, ncalls, tmpl, notes, xin, xout>>

NextShared ==
    \/ NextSchema
    \/ MutateMapping
    \/ MutateFields

SpecShared == InitSchema /\ [][NextShared]_vars

------------------------------------------------------------------------------
(* LeafMethods.methods on its own: every small body of a leaf type.         *)

MaxMembers == 3

\* what a leaf type can declare: two endpoints, one with a docstring and one
\* with a parameter, a private helper, an attribute that is no function, and
\* a function that raises
Declarable ==
    [ endpoint_a |-> Returns(NoneV), endpoint_b |-> Returns(S("ok")),
      _helper |-> Returns(NoneV), limit |-> Holds(I("5")),
      check |-> Raises("RuntimeError") ]

\* class MyApi(Ctx, LeafMethods) with up to MaxMembers declarations, in every order, its
\* source readable or not
MethodHierarchies ==
    { [ object |-> Program["object"],
        Ctx |-> Program["Ctx"],
        LeafMethods |-> Program["LeafMethods"],
        MyApi |-> Type(<<"Ctx", "LeafMethods">>, <<L("API")>>,
                       [n \in Range(q) \cup {"__dict__"} |->
                           IF n = "__dict__"
                           THEN Holds(Li([j \in 1..Len(q) |-> S(q[j])]))
                           ELSE Declarable[n]],
                       file) ] :
      q \in UNION { {x \in [1..n -> DOMAIN Declarable] :
                        \A a, b \in 1..n : a # b => x[a] # x[b]}
                    : n \in 0..MaxMembers },
      file \in {"", TestFile} }

InitMethods ==
    /\ classes \in MethodHierarchies
    /\ in_ctx = [i \in Instances |-> "absent"]
    /\ stack = <<>>
    /\ ret = NoRet
    /\ invoked = <<>>
    /\ ncalls = 0
    /\ last = Ended([NoRet EXCEPT !.op = "declared"])
    /\ tmpl = Blank
    /\ notes = Blank
    /\ xin = EmptyCtx
    /\ xout = Elem("", <<>>, <<>>, <<>>)
    /\ prev = NoRet
    /\ disk = NoDisk
    /\ registry = <<>>
    /\ spec_meta = NoMeta
    /\ mods = <<>>

\* MyApi().methods()
MethodsCall ==
    /\ last.op = "declared"
    /\ ret' = methods("myapi")
    /\ last' = [last EXCEPT !.op = "listed"]
    /\ UNCHANGED <<classes, disk, registry, spec_meta, prev, mods, in_ctx, stack,
                   invoked, ncalls, tmpl, notes, xin, xout>>

SpecMethods == InitMethods /\ [][MethodsCall]_vars

------------------------------------------------------------------------------
(* Aggregation: Spec.generate_xml over the modules that modules() lists.    *)

MaxMods == 2

\* a name of a module's namespace and the type bound to it ("" when the value
\* is no type)
Binding(name, cls) == [name |-> name, cls |-> cls]

\* vars(module), for each module that can be listed
Namespace ==
    [ mock_mod |-> { Binding("MyFeature", "MyFeature"),
                     Binding("Feature", "Feature"), Binding("sys", "") },
      req_mod |-> { Binding("MissingFooReq", "MissingFooReq"),
                    Binding("MySpec", "MySpec"), Binding("Spec", "Spec"),
                    Binding("Requirement", "Requirement"), Binding("sys", "") },
      alias_mod |-> { Binding("ComplexCtx", "ComplexCtx"),
                      Binding("Alias", "ComplexCtx"), Binding("Ctx", "Ctx"),
                      Binding("RecursiveCtx", "RecursiveCtx") },
      lib_mod |-> { Binding("Ctx", "Ctx"), Binding("Feature", "Feature"),
                    Binding("Requirement", "Requirement"),
                    Binding("Spec", "Spec") },
      ctor_mod |-> { Binding("Child", "Child"), Binding("NeedsArg", "NeedsArg"),
                     Binding("Ctx", "Ctx") },
      api_mod |-> { Binding("LocatedApi", "LocatedApi"), Binding("Ctx", "Ctx"),
                    Binding("LeafMethods", "LeafMethods"), Binding("os", "") } ]

\* cls.__module__
DefinedIn ==
    [ MyFeature |-> "mock_mod", MissingFooReq |-> "req_mod", MySpec |-> "req_mod",
      ComplexCtx |-> "alias_mod", RecursiveCtx |-> "alias_mod", Ctx |-> "lib_mod", Feature |-> "lib_mod",
      Requirement |-> "lib_mod", Spec |-> "lib_mod", Child |-> "ctor_mod",
      NeedsArg |-> "ctor_mod", LocatedApi |-> "api_mod", LeafMethods |-> "lib_mod" ]

\* the lists modules() can return: distinct modules, at most MaxMods of them
ModuleLists ==
    UNION { {q \in [1..n -> DOMAIN Namespace] :
                \A a, b \in 1..n : a # b => q[a] # q[b]} : n \in 1..MaxMods }

\* inspect.getmembers(module, inspect.isclass): sorted by name
getmembers_isclass(module) ==
    LET names == sorted_set({b.name : b \in {x \in Namespace[module] : x.cls # ""}})
    IN  [n \in 1..Len(names) |->
            CHOOSE b \in Namespace[module] : b.name = names[n]]

\* issubclass(cls, base)
issubclass(cls, base) == base \in Range(mro(cls))

classes_with_ctx_superclass(module) ==
    SelectSeq(getmembers_isclass(module),
              LAMBDA b : /\ DefinedIn[b.cls] = module
                         /\ issubclass(b.cls, "Ctx")
                         /\ b.cls # "Ctx")

\* C() raises when the type's constructor does
init_raises(cls) ==
    /\ Definers(cls, "__init__") # <<>>
    /\ classes[Head(Definers(cls, "__init__"))].members["__init__"].kind = "raise"

propagates_mutant_never(r) == FALSE

\* generate_xml has no handler: an exception of a unit leaves it
propagates(r) == r.kind = "exc"

\* Spec.generate_xml: root = ET.Element("specification_set")
GenerateCall ==
    /\ stack = <<>>
    /\ ncalls < MaxCalls
    /\ stack' = << [Frame("generate_xml", "spec", TRUE) EXCEPT
                       !.pc = "modules", !.todo = mods,
                       !.data = ElemVal(Elem("specification_set", <<>>, <<>>, <<>>))] >>
    /\ ret' = NoRet
    /\ invoked' = <<>>
    /\ ncalls' = ncalls + 1
    /\ last' = EndedOn(ret, "spec")
    /\ UNCHANGED <<classes, disk, registry, spec_meta, prev, mods, in_ctx, tmpl, notes, xin, xout>>

\* for mod in self.modules(): module_specs(mod) instantiates every type found
GenerateModule ==
    /\ At("generate_xml", "modules")
    /\ top.todo # <<>>
    /\ LET cs == classes_with_ctx_superclass(Head(top.todo))
           bad == SelectSeq(cs, LAMBDA b : init_raises(b.cls))
           made == [n \in 1..Len(cs) |-> Created[cs[n].name]]
       IN  IF bad # <<>>
           THEN /\ stack' = Pop
                /\ ret' = Exc(Exception("TypeError", "", Head(bad).cls,
                                        [file |-> "", line_of |-> ""], "__init__"),
                              top)
                /\ in_ctx' = in_ctx
           ELSE /\ stack' = SetTop([top EXCEPT !.pc = "specs", !.specs = made,
                                               !.todo = Tail(top.todo)])
                /\ ret' = NoRet
                /\ in_ctx' = [i \in DOMAIN in_ctx |->
                                 IF i \in Range(made) THEN "absent" ELSE in_ctx[i]]
    /\ UNCHANGED <<classes, disk, registry, spec_meta, prev, mods, invoked, ncalls, last, tmpl, notes, xin, xout>>

\* for spec in module_specs(mod): spec.to_xml_element()
GenerateSpec ==
    /\ At("generate_xml", "specs")
    /\ top.specs # <<>>
    /\ stack' = Append(SetTop([top EXCEPT !.pc = "append"]),
                       Frame("to_xml_element", Head(top.specs), TRUE))
    /\ ret' = NoRet
    /\ UNCHANGED <<classes, disk, registry, spec_meta, prev, mods, in_ctx, invoked, ncalls, last, tmpl, notes, xin, xout>>

\* root.append(...) of what to_xml_element returned; its exception leaves
\* generate_xml
GenerateAppend ==
    /\ At("generate_xml", "append")
    /\ ret.kind # "none"
    /\ IF propagates(ret)
       THEN /\ stack' = Pop
            /\ ret' = [ret EXCEPT !.op = "generate_xml", !.self = "spec"]
       ELSE /\ stack' = SetTop([top EXCEPT
                   !.pc = "specs", !.specs = Tail(top.specs),
                   !.data = ElemVal([top.data.items[1] EXCEPT
                                        !.children = Append(@, ret.v.items[1])])])
            /\ ret' = NoRet
    /\ UNCHANGED <<classes, disk, registry, spec_meta, prev, mods, in_ctx, invoked, ncalls, last, tmpl, notes, xin, xout>>

\* the specs of one module are done: on to the next module
GenerateNextModule ==
    /\ At("generate_xml", "specs")
    /\ top.specs = <<>>
    /\ stack' = SetTop([top EXCEPT !.pc = "modules"])
    /\ UNCHANGED <<classes, disk, registry, spec_meta, prev, mods, in_ctx, ret, invoked, ncalls, last, tmpl, notes, xin, xout>>

\* return reparsed.toprettyxml(indent="  ")
GenerateReturn ==
    /\ At("generate_xml", "modules")
    /\ top.todo = <<>>
    /\ stack' = Pop
    /\ ret' = Val(XmlOf(top.data.items[1]), top)
    /\ UNCHANGED <<classes, disk, registry, spec_meta, prev, mods, in_ctx, invoked, ncalls, last, tmpl, notes, xin, xout>>

InitSet ==
    /\ classes = Program
    /\ in_ctx = [i \in Objects |-> "absent"]
    /\ stack = <<>>
    /\ ret = NoRet
    /\ invoked = <<>>
    /\ ncalls = 0
    /\ last = Ended(NoRet)
    /\ tmpl = Blank
    /\ notes = Blank
    /\ xin = EmptyCtx
    /\ xout = Elem("", <<>>, <<>>, <<>>)
    /\ prev = NoRet
    /\ disk = NoDisk
    /\ registry = <<>>
    /\ spec_meta = NoMeta
    /\ mods \in ModuleLists

NextSet ==
    \/ GenerateCall
    \/ GenerateModule
    \/ GenerateSpec
    \/ GenerateAppend
    \/ GenerateNextModule
    \/ GenerateReturn
    \/ Body

SpecSet == InitSet /\ [][NextSet]_vars

------------------------------------------------------------------------------
(* The document as text, and Spec.write_xml.                                *)

HexDigits == 32
NameDigits == 20

Indent == [t |-> "ws", s |-> "  "]
Open(e) == [t |-> "open", s |-> e.tag, attrs |-> e.attrs]
Close(e) == [t |-> "close", s |-> e.tag]

escape_mutant_raw(tok) == tok

\* character data is written escaped: the markup of a document held in a text
\* stays text
escape(tok) ==
    IF tok.t = "val" /\ tok.v.k = "xml"
    THEN [t |-> "esc", s |-> "", v |-> tok.v]
    ELSE tok

RECURSIVE tostring(_)
\* ET.tostring(root, 'utf-8')
tostring(e) ==
    <<Open(e)>>
    \o [n \in 1..Len(e.text) |-> escape(e.text[n])]
    \o Flat([n \in 1..Len(e.children) |-> tostring(e.children[n])])
    \o <<Close(e)>>

RECURSIVE markup(_)
\* the markup the parser reads: an escaped text is one text, unescaped markup
\* in a text is markup
markup(toks) ==
    Flat([n \in 1..Len(toks) |->
             IF toks[n].t = "val" /\ toks[n].v.k = "xml"
             THEN markup(tostring(toks[n].v.items[1]))
             ELSE <<toks[n]>>])

\* the parser at one token, `open` the elements not yet ended: a start tag
\* opens an element, an end tag makes the innermost one a child of the one
\* around it, anything else is text of the innermost one
parse_token(open, tok) ==
    CASE tok.t = "open" -> Append(open, Elem(tok.s, tok.attrs, <<>>, <<>>))
      [] tok.t = "close" ->
           LET n == Len(open)
           IN  [SubSeq(open, 1, n - 1) EXCEPT ![n - 1].children = Append(@, open[n])]
      [] tok.t = "esc" -> [open EXCEPT ![Len(open)].text = Append(@, Piece(tok.v))]
      [] OTHER -> [open EXCEPT ![Len(open)].text = Append(@, tok)]

RECURSIVE parse_tokens(_, _, _, _)
\* the parser over tokens lo..hi, in order
parse_tokens(open, toks, lo, hi) ==
    IF lo > hi THEN open
    ELSE IF lo = hi THEN parse_token(open, toks[lo])
    ELSE LET mid == (lo + hi) \div 2
             half == parse_tokens(open, toks, lo, mid)
         IN  IF Len(half) > 0 THEN parse_tokens(half, toks, mid + 1, hi) ELSE half

\* minidom.parseString(text): the document element
parseString(text) ==
    LET toks == markup(text)
        n == Len(toks)
    IN  IF n > 0
        THEN parse_tokens(<<Elem("#document", <<>>, <<>>, <<>>)>>, toks, 1, n)[1]
                 .children[1]
        ELSE Elem("", <<>>, <<>>, <<>>)

RECURSIVE toprettyxml(_)
\* reparsed.toprettyxml(indent="  "): an element's children each on a line of
\* their own, a text on the line of its element
toprettyxml(e) ==
    IF e.children = <<>>
    THEN <<Open(e)>> \o [n \in 1..Len(e.text) |-> escape(e.text[n])] \o <<Close(e)>>
    ELSE <<Open(e)>>
         \o Flat([n \in 1..Len(e.children) |-> <<Indent>> \o toprettyxml(e.children[n])])
         \o <<Indent, Close(e)>>

\* the text generate_xml returns for the tree it built
document(root) == toprettyxml(parseString(tostring(root)))

Hex == << "0", "1", "2", "3", "4", "5", "6", "7", "8", "9", "a", "b", "c", "d",
          "e", "f" >>

Weight(tok) ==
    CASE tok.t = "open" -> 3 + Len(tok.attrs)
      [] tok.t = "close" -> 5
      [] tok.t = "ws" -> 7
      [] tok.t = "esc" -> 11
      [] OTHER -> 13

RECURSIVE Checksum(_, _, _)
\* the sum, over tokens lo..hi of the text, of position times weight
Checksum(toks, lo, hi) ==
    IF lo > hi THEN 0
    ELSE IF lo = hi THEN (lo * Weight(toks[lo])) % 65536
    ELSE LET mid == (lo + hi) \div 2
         IN  (Checksum(toks, lo, mid) + Checksum(toks, mid + 1, hi)) % 65536

\* easy_hash(text): a digest of the text, HexDigits hexadecimal digits long
easy_hash(text) ==
    LET sum == Checksum(text, 1, Len(text))
    IN  [k \in 1..HexDigits |-> ((sum + k) * (2 * k + 1)) % 16]

RECURSIVE hexdigits(_)
hexdigits(digest) ==
    IF digest = <<>> THEN "" ELSE Hex[Head(digest) + 1] \o hexdigits(Tail(digest))

\* os.path.join(output_dir, name)
join_path(output_dir, name) == output_dir \o "/" \o name

spec_name_mutant_full_digest(xml_content) ==
    "spec-" \o hexdigits(easy_hash(xml_content)) \o ".xml"

\* f"spec-{easy_hash(xml_content)[:20]}.xml"
spec_name(xml_content) ==
    "spec-" \o hexdigits(SubSeq(easy_hash(xml_content), 1, NameDigits)) \o ".xml"

File(folder, fname, content) ==
    [folder |-> folder, fname |-> fname, content |-> content]

\* open(path, "w").write(content): the file at path now holds content
write_file(d, folder, fname, content) ==
    [d EXCEPT !.files = {f \in @ : f.folder # folder \/ f.fname # fname}
                        \cup {File(folder, fname, content)}]

RECURSIVE specification_nodes(_)
\* tree.xpath('//specification')
specification_nodes(e) ==
    (IF e.tag = "specification" THEN <<e>> ELSE <<>>)
    \o Flat([n \in 1..Len(e.children) |-> specification_nodes(e.children[n])])

\* Spec.generate_source_map: one component for each specification node of the
\* parsed text, written to source_map.json of the output directory
generate_source_map(d, xml_content, output_dir) ==
    LET nodes == specification_nodes(parseString(xml_content))
    IN  write_file(d, output_dir, "source_map.json",
                   [n \in 1..Len(nodes) |-> L(nodes[n].attrs[1].value)])

before_generate_mutant_makedirs(d, output_dir) ==
    [d EXCEPT !.dirs = @ \cup {output_dir}]

\* what write_xml has done to the output location when it calls generate_xml:
\* nothing, os.makedirs comes after
before_generate(d, output_dir) == d

\* the directories a caller passes
OutputDirs == {"out", "build/spec"}

\* Spec.write_xml(output_dir): xml_content = self.generate_xml()
WriteCall ==
    /\ stack = <<>>
    /\ ncalls < MaxCalls
    /\ \E output_dir \in OutputDirs :
           /\ stack' = << [Frame("write_xml", "spec", TRUE) EXCEPT
                              !.pc = "generate", !.cur = output_dir],
                          [Frame("generate_xml", "spec", TRUE) EXCEPT
                              !.pc = "modules", !.todo = mods,
                              !.data = ElemVal(Elem("specification_set", <<>>,
                                                    <<>>, <<>>))] >>
           /\ disk' = before_generate(disk, output_dir)
    /\ ret' = NoRet
    /\ invoked' = <<>>
    /\ ncalls' = ncalls + 1
    /\ last' = EndedOn(ret, "spec")
    /\ UNCHANGED <<classes, registry, spec_meta, prev, mods, in_ctx, tmpl, notes, xin, xout>>

\* the rest of write_xml, once generate_xml has ended: its exception leaves
\* write_xml; its text is hashed, the directory made, the file written, the
\* source map written next to it and the path returned
WriteFile ==
    /\ At("write_xml", "generate")
    /\ ret.kind # "none"
    /\ stack' = Pop
    /\ IF propagates(ret)
       THEN /\ ret' = [ret EXCEPT !.op = "write_xml", !.self = "spec"]
            /\ UNCHANGED <<disk, prev>>
       ELSE LET xml_content == document(ret.v.items[1])
                output_dir == top.cur
                fname == spec_name(xml_content)
                made == [disk EXCEPT !.dirs = @ \cup {output_dir}]
                written == write_file(made, output_dir, fname, xml_content)
            IN  /\ disk' = generate_source_map(written, xml_content, output_dir)
                /\ prev' = ret
                /\ ret' = Val(S(join_path(output_dir, fname)), top)
    /\ UNCHANGED <<classes, registry, spec_meta, mods, in_ctx, invoked, ncalls, last, tmpl, notes, xin, xout>>

\* a reader parses the text generate_xml returned
ParseText ==
    /\ stack = <<>>
    /\ ret.op = "generate_xml"
    /\ ret.kind = "val"
    /\ last.op # "parsed"
    /\ xout' = parseString(document(ret.v.items[1]))
    /\ prev' = ret
    /\ last' = [last EXCEPT !.op = "parsed"]
    /\ UNCHANGED <<classes, disk, registry, spec_meta, mods, in_ctx, stack, ret, invoked, ncalls, tmpl, notes, xin>>

\* a reader parses the file write_xml returned the path of
ReadBack ==
    /\ stack = <<>>
    /\ ret.op = "write_xml"
    /\ ret.kind = "val"
    /\ last.op # "parsed"
    /\ \E f \in disk.files :
           /\ join_path(f.folder, f.fname) = ret.v.s
           /\ xout' = parseString(f.content)
    /\ last' = [last EXCEPT !.op = "parsed"]
    /\ UNCHANGED <<classes, disk, registry, spec_meta, prev, mods, in_ctx, stack, ret, invoked, ncalls, tmpl, notes, xin>>

MaxWriteMods == 1

\* the state before the first write_xml or generate_xml call of a Spec whose
\* modules() lists at most MaxWriteMods modules
InitWrite ==
    /\ classes = Program
    /\ in_ctx = [i \in Objects |-> "absent"]
    /\ stack = <<>>
    /\ ret = NoRet
    /\ invoked = <<>>
    /\ ncalls = 0
    /\ last = Ended(NoRet)
    /\ tmpl = Blank
    /\ notes = Blank
    /\ xin = EmptyCtx
    /\ xout = Elem("", <<>>, <<>>, <<>>)
    /\ prev = NoRet
    /\ disk = NoDisk
    /\ registry = <<>>
    /\ spec_meta = NoMeta
    /\ mods \in {q \in ModuleLists : Len(q) <= MaxWriteMods}

NextWrite ==
    \/ NextSet
    \/ WriteCall
    \/ WriteFile
    \/ ParseText
    \/ ReadBack

SpecWrite == InitWrite /\ [][NextWrite]_vars

------------------------------------------------------------------------------
(* speclib: the spec decorator and its registry.                            *)

MaxDecor == 2

\* inspect.isclass(obj) and inspect.getdoc(obj) of the callables
IsClass(f) == f = "MyClass"
Doc(f) == IF f = "my_method" THEN S("Method description") ELSE NoneV

\* SpecRegistry.register_spec(obj, meta): one more entry in specs
register_spec(specs, obj, meta) ==
    Append(specs, [type |-> IF IsClass(obj) THEN "class" ELSE "method",
                   name |-> obj, doc |-> Doc(obj), meta |-> meta])

\* the ways a definition is decorated, and the keyword arguments of each
Forms == {"spec", "spec.draft", "spec.question", "spec.ui", "spec(custom_meta)"}
MetaOf(form) ==
    CASE form = "spec" -> EmptyCtx
      [] form = "spec.draft" -> D(<<KV("status", S("draft"))>>)
      [] form = "spec.question" -> D(<<KV("status", S("question"))>>)
      [] form = "spec.ui" -> D(<<KV("layer", S("ui"))>>)
      [] OTHER -> D(<<KV("custom_meta", S("value"))>>)

\* what the decorator expression is called with before it is applied to the
\* definition: @spec(custom_meta="value") first calls spec with no function
FirstArgument(form, f) == IF form = "spec(custom_meta)" THEN "None" ELSE f

\* SpecDecorator.__call__ reads func.__doc__ and func.__name__ before it
\* delegates: None has no __name__
call_raises(form, func) == form \in {"spec", "spec(custom_meta)"} /\ func = "None"

\* decorating the definition of f in one of the forms: _spec_impl registers
\* f, sets f._spec_meta and returns f
Decorate ==
    /\ ncalls < MaxDecor
    /\ \E form \in Forms : \E f \in Callables :
           LET func == FirstArgument(form, f)
           IN  IF call_raises(form, func)
               THEN /\ ret' = [kind |-> "exc", op |-> form, self |-> f,
                               v |-> Exception("AttributeError", "__name__",
                                               "NoneType",
                                               [file |-> "", line_of |-> ""],
                                               "__call__")]
                    /\ UNCHANGED <<registry, spec_meta>>
               ELSE /\ registry' = register_spec(registry, func, MetaOf(form))
                    /\ spec_meta' = [spec_meta EXCEPT ![func] = MetaOf(form)]
                    /\ ret' = [kind |-> "val", op |-> form, self |-> f,
                               v |-> S(func)]
    /\ ncalls' = ncalls + 1
    /\ UNCHANGED <<classes, disk, prev, mods, in_ctx, stack, invoked, last, tmpl,
                   notes, xin, xout>>

SpecDecorate == Init /\ [][Decorate]_vars

------------------------------------------------------------------------------
(* The resolver on its own: every small hierarchy under Ctx.                *)

HeaderDoc == <<NL, L("Header "), V("name"), NL>>
BodyDoc == <<NL, L("Body"), NL>>
FooterDoc == <<NL, L("Footer "), V("foo"), NL>>
MixinDoc == <<L("Mixin")>>

Docs(d) == {<<>>, d}

\* The hierarchies: GrandParent under Ctx; Parent under GrandParent or Ctx;
\* Child under either or directly under Ctx, with or without a plain mixin
\* before or after its other base; every docstring present or absent.
Hierarchies ==
    { [ object |-> Program["object"],
        Ctx |-> Program["Ctx"],
        Mixin |-> Type(<<"object">>, dm, NoMembers, ""),
        GrandParent |-> Type(<<"Ctx">>, dg, NoMembers, ""),
        Parent |-> Type(bp, dp, NoMembers, ""),
        Child |-> Type(bc, dc, NoMembers, "") ] :
      dm \in Docs(MixinDoc), dg \in Docs(HeaderDoc), dp \in Docs(BodyDoc),
      dc \in Docs(FooterDoc),
      bp \in {<<"GrandParent">>, <<"Ctx">>},
      bc \in { <<"Parent">>, <<"GrandParent">>, <<"Ctx">>, <<"Mixin", "Parent">>,
               <<"Parent", "Mixin">>, <<"Ctx", "Mixin">> } }

InitTemplate ==
    /\ classes \in Hierarchies
    /\ in_ctx = [i \in Instances |-> "absent"]
    /\ stack = <<>>
    /\ ret = NoRet
    /\ invoked = <<>>
    /\ ncalls = 0
    /\ last = Ended([NoRet EXCEPT !.op = "declared"])
    /\ tmpl = Blank
    /\ notes = Blank
    /\ xin = EmptyCtx
    /\ xout = Elem("", <<>>, <<>>, <<>>)
    /\ prev = NoRet
    /\ disk = NoDisk
    /\ registry = <<>>
    /\ spec_meta = NoMeta
    /\ mods = <<>>

\* Child()._get_base_template() and Child()._get_instance_notes()
Resolve ==
    /\ last.op = "declared"
    /\ tmpl' = get_base_template("Child")
    /\ notes' = get_instance_notes("Child")
    /\ last' = [last EXCEPT !.op = "resolved"]
    /\ UNCHANGED <<classes, disk, registry, spec_meta, prev, mods, in_ctx, stack, ret, invoked, ncalls, xin, xout>>

NextTemplate == Resolve

SpecTemplate == InitTemplate /\ [][NextTemplate]_vars

------------------------------------------------------------------------------
(* The converter on its own: every small mapping, in every insertion order. *)

MaxKeys == 3

DataKeys == {"start_line", "key2", "dashed-key", "a_a"}

Leaves ==
    { S("ok"), I("1"),
      D(<<KV("nested", S("val")), KV("end_line", I("9")), KV("a-b", S("x"))>>),
      Li(<<I("2"), D(<<KV("key2", S("v")), KV("a_a", S("w"))>>)>>) }

\* the sequences of distinct keys of length n
Orders(n) ==
    {q \in [1..n -> DataKeys] : \A a, b \in 1..n : a # b => q[a] # q[b]}

Mappings ==
    UNION { { D([i \in 1..n |-> KV(q[i], vs[i])]) : q \in Orders(n),
                                                     vs \in [1..n -> Leaves] } :
            n \in 0..MaxKeys }

InitXml ==
    /\ classes = Program
    /\ in_ctx = [i \in Instances |-> "absent"]
    /\ stack = <<>>
    /\ ret = NoRet
    /\ invoked = <<>>
    /\ ncalls = 0
    /\ last = Ended([NoRet EXCEPT !.op = "input"])
    /\ tmpl = Blank
    /\ notes = Blank
    /\ xin \in Mappings
    /\ xout = Elem("", <<>>, <<>>, <<>>)
    /\ prev = NoRet
    /\ disk = NoDisk
    /\ registry = <<>>
    /\ spec_meta = NoMeta
    /\ mods = <<>>

\* self._to_xml_element("data", value)
ConvertValue ==
    /\ last.op = "input"
    /\ xout' = to_xml("data", xin)
    /\ last' = [last EXCEPT !.op = "value"]
    /\ UNCHANGED <<classes, disk, registry, spec_meta, prev, mods, in_ctx, stack, ret, invoked, ncalls, tmpl, notes, xin>>

\* the context node of to_xml_element for an extended context
ConvertContext ==
    /\ last.op = "input"
    /\ xout' = context_elem(xin)
    /\ last' = [last EXCEPT !.op = "context"]
    /\ UNCHANGED <<classes, disk, registry, spec_meta, prev, mods, in_ctx, stack, ret, invoked, ncalls, tmpl, notes, xin>>

NextXml == ConvertValue \/ ConvertContext

SpecXml == InitXml /\ [][NextXml]_vars

------------------------------------------------------------------------------
(* The plain-text renderer of src/spec.py, on every small hierarchy.        *)

TitleDoc == <<NL, L("Title: "), V("name"), NL>>
FixedDoc == <<NL, L("Fixed"), NL>>
NotesDoc == <<NL, L("Footer notes"), NL>>
SignedDoc == <<L("By "), V("name")>>

\* GrandParent is the template type under Ctx; Child is the leaf, under it or
\* directly under Ctx; docstrings absent, blank, fixed or with a placeholder;
\* the accessor `name` absent, returning a string, or left unimplemented.
RenderHierarchies ==
    { [ object |-> Program["object"],
        Ctx |-> Program["Ctx"],
        GrandParent |-> Type(<<"Ctx">>, dt, NoMembers, ""),
        Child |-> Type(bc, dc, m, "") ] :
      dt \in {<<>>, <<NL>>, FixedDoc, TitleDoc},
      dc \in {<<>>, NotesDoc, SignedDoc},
      bc \in {<<"GrandParent">>, <<"Ctx">>},
      m \in {NoMembers, "name" :> Returns(S("x")), "name" :> Unimplemented} }

\* src/spec.py Ctx._get_base_template: the docstring of the first type of
\* the resolution order that has Ctx among its direct bases
legacy_get_base_template(c) ==
    LET hit == SelectSeq(mro(c), LAMBDA k : "Ctx" \in Range(classes[k].bases))
    IN  IF hit = <<>> THEN <<>> ELSE cleandoc(classes[Head(hit)].doc)

\* src/spec.py Ctx.ctx: raise AttributeError(f"Missing {method_name} in ...")
legacy_missing_error(i, var) ==
    Exception("AttributeError", var, ClassOf[i], [file |-> "", line_of |-> ""],
              replace_dash(var))

RECURSIVE legacy_bind(_, _, _)
\* src/spec.py Ctx.ctx: the loop over the expected variables
legacy_bind(i, todo, context) ==
    IF todo = <<>> THEN [kind |-> "val", v |-> context, op |-> "ctx", self |-> i]
    ELSE LET var == Head(todo)
             o == IF hasattr(i, replace_dash(var))
                  THEN use_member(i, replace_dash(var))
                  ELSE Outcome("raise", legacy_missing_error(i, var), "", "")
         IN  IF o.kind = "raise"
             THEN [kind |-> "exc", v |-> o.v, op |-> "ctx", self |-> i]
             ELSE legacy_bind(i, Tail(todo), Put(context, var, o.v))

\* src/spec.py Ctx.ctx
legacy_ctx(i) ==
    LET doc == legacy_get_base_template(ClassOf[i])
    IN  IF doc = <<>> THEN [kind |-> "val", v |-> EmptyCtx, op |-> "ctx", self |-> i]
        ELSE LET expected_vars == find_undeclared_variables(doc)
             IN  legacy_bind(i, fields_first(i, expected_vars)
                                \o sorted_set(expected_vars \ {"fields"}),
                             EmptyCtx)

\* src/spec.py Ctx.render
legacy_render(i) ==
    LET base_template == legacy_get_base_template(ClassOf[i])
        instance_notes == get_instance_notes(ClassOf[i])
        c == legacy_ctx(i)
    IN  IF c.kind = "exc" THEN [c EXCEPT !.op = "render"]
        ELSE LET rendered_body == strip(render(base_template, c.v))
             IN  [c EXCEPT !.op = "render",
                           !.v = Text(IF instance_notes # <<>>
                                      THEN instance_notes \o <<NL, NL>> \o rendered_body
                                      ELSE rendered_body)]

InitRender ==
    /\ classes \in RenderHierarchies
    /\ in_ctx = [i \in Instances |-> "absent"]
    /\ stack = <<>>
    /\ ret = NoRet
    /\ invoked = <<>>
    /\ ncalls = 0
    /\ last = Ended([NoRet EXCEPT !.op = "declared"])
    /\ tmpl = Blank
    /\ notes = Blank
    /\ xin = EmptyCtx
    /\ xout = Elem("", <<>>, <<>>, <<>>)
    /\ prev = NoRet
    /\ disk = NoDisk
    /\ registry = <<>>
    /\ spec_meta = NoMeta
    /\ mods = <<>>

\* Child().render(); the template, the notes and the context it worked from
\* are kept beside the result
LegacyRender ==
    /\ last.op = "declared"
    /\ ret' = legacy_render("child")
    /\ tmpl' = legacy_get_base_template("Child")
    /\ notes' = get_instance_notes("Child")
    /\ xin' = LET c == legacy_ctx("child") IN IF c.kind = "val" THEN c.v ELSE EmptyCtx
    /\ last' = [last EXCEPT !.op = "rendered"]
    /\ UNCHANGED <<classes, disk, registry, spec_meta, prev, mods, in_ctx, stack, invoked, ncalls, xout>>

NextRender == LegacyRender

SpecRender == InitRender /\ [][NextRender]_vars

------------------------------------------------------------------------------
(* What the claims speak of.                                                *)

EntryOps == {"ctx", "to_xml_element", "render_xml"}

\* an outermost call has ended
Done(ops) == stack = <<>> /\ ret.kind # "none" /\ ret.op \in ops

Index(q, x) == CHOOSE n \in 1..Len(q) : q[n] = x

\* the types strictly between c and Ctx in the resolution order
Ancestors(c) ==
    LET m == mro(c) IN {m[n] : n \in 2..(Index(m, "Ctx") - 1)}

\* Ctx and the types that come after it in the resolution order
RootAndAfter(c) ==
    LET m == mro(c) IN {m[n] : n \in Index(m, "Ctx")..Len(m)}

DocVars(k) == {tok.s : tok \in {x \in Range(classes[k].doc) : x.t = "var"}}
AncestorVars(c) == UNION {DocVars(k) : k \in Ancestors(c)}
NotesVars(c) == DocVars(c)
TemplateVars(c) == AncestorVars(c) \cup NotesVars(c)
Unbound(i, vs) == {v \in vs : ~hasattr(i, replace_dash(v))}

Raised(type) == ret.kind = "exc" /\ ret.v.s = type
Err == ret.v.items[1]

HasChild(e, tag) == \E n \in 1..Len(e.children) : e.children[n].tag = tag
ChildOf(e, tag) == e.children[CHOOSE n \in 1..Len(e.children) : e.children[n].tag = tag]
\* the context node is the last child of a specification node
ContextOf(e) == e.children[Len(e.children)]
\* the document an element's text holds, when that text is a rendered document
NestedDoc(e) == e.text[1].v.items[1]

CtxFrames(i) == {n \in 1..Len(stack) : stack[n].op = "ctx" /\ stack[n].self = i}
DoCtxFrames(i) == {n \in 1..Len(stack) : stack[n].op = "_do_ctx" /\ stack[n].self = i}

\* C1 as stated: whenever a placeholder of the merged template has no matching
\* member, the outermost call ends in AttributeError.
C1_AsClaimed ==
    \A i \in Instances :
        (Done(EntryOps) /\ ret.self = i /\ Unbound(i, AncestorVars(ClassOf[i])) # {})
        => Raised("AttributeError")

\* C1 amended: when a placeholder other than `fields`, in an ancestor's
\* fragment or in the leaf's own docstring, has no matching member, the outermost
\* call returns nothing: it raises AttributeError, unless an accessor invoked
\* before the unbound placeholder was reached raised its own error.
C1_UnboundRaises ==
    \A i \in Instances :
        (Done(EntryOps) /\ ret.self = i
         /\ Unbound(i, TemplateVars(ClassOf[i]) \ {"fields"}) # {})
        => /\ ret.kind = "exc"
           /\ \/ /\ Raised("AttributeError")
                 /\ Err.var \in Unbound(i, TemplateVars(ClassOf[i]) \ {"fields"})
              \/ /\ ~Raised("AttributeError")
                 /\ <<i, Err.method>> \in Range(invoked)

C1_Witness ==
    /\ Done({"render_xml"})
    /\ ret.self = "broken"
    /\ Raised("AttributeError")
    /\ Err.var = "missing_method"

\* C2 as stated: the error names the type whose docstring holds the placeholder
\* and the place where that type is declared.
C2_AsClaimed ==
    Raised("AttributeError")
    => /\ V(Err.var) \in Range(classes[Err.cls].doc)
       /\ Err.loc.line_of = Err.cls
       /\ Err.method = replace_dash(Err.var)

\* C2 amended: the error names the placeholder, the concrete type of the
\* instance being rendered (whichever type's docstring holds the placeholder),
\* the file and first line of that concrete type, or "unknown location" when its
\* source cannot be read, and the accessor name to add.
C2_ErrorNamesInstanceType ==
    (Raised("AttributeError") /\ ret.op = "_do_ctx")
    => LET c == ClassOf[ret.self]
       IN  /\ Err.var \in Unbound(ret.self, TemplateVars(c))
           /\ Err.cls = c
           /\ Err.method = replace_dash(Err.var)
           /\ Err.loc = IF classes[c].file # ""
                        THEN [file |-> classes[c].file, line_of |-> c]
                        ELSE [file |-> "unknown location", line_of |-> ""]

C2_Witness ==
    /\ Raised("AttributeError")
    /\ ret.op = "_do_ctx"
    /\ ret.self = "broken"
    /\ Err.cls = "BrokenSpec"
    /\ V(Err.var) \in Range(classes["BrokenTemplate"].doc)
    /\ Err.loc.line_of = "BrokenSpec"

\* the chain Ctx -> GrandParent -> Parent -> Child, both ancestors documented
Chain ==
    /\ classes["Child"].bases = <<"Parent">>
    /\ classes["Parent"].bases = <<"GrandParent">>
    /\ classes["GrandParent"].doc # <<>>
    /\ classes["Parent"].doc # <<>>

\* C3 as stated: for Ctx -> A -> B -> Leaf the merged template is A's fragment,
\* a blank line, then B's fragment: the most general ancestor first.
C3_AsClaimed ==
    (last.op = "resolved" /\ Chain)
    => tmpl = cleandoc(classes["GrandParent"].doc) \o <<NL, NL>>
              \o cleandoc(classes["Parent"].doc)

\* C4: the merged template holds nothing of the leaf's own docstring, nor of the
\* docstring of Ctx or of a type after Ctx in the resolution order; the leaf's
\* docstring comes back as the instance notes.
C4_OwnAndRootExcluded ==
    last.op = "resolved"
    => /\ \A k \in {"Child"} \cup RootAndAfter("Child") :
              \A tok \in Range(classes[k].doc) :
                  tok.t # "ws" => tok \notin Range(tmpl)
       /\ notes = cleandoc(classes["Child"].doc)

C4_Witness ==
    /\ last.op = "resolved"
    /\ classes["Child"].bases = <<"Parent", "Mixin">>
    /\ classes["Child"].doc # <<>>
    /\ classes["Mixin"].doc # <<>>
    /\ tmpl # <<>>
    /\ notes # <<>>

C6_ReentrantStep ==
    (At("ctx", "call") /\ in_ctx[top.self] = "true")
    => /\ stack' = Pop
       /\ ret' = Val(EmptyCtx, top)
       /\ invoked' = invoked
       /\ in_ctx' = in_ctx

C6_NestedEmpty ==
    (ret.kind = "val" /\ ret.op \in {"to_xml_element", "render_xml"}
     /\ in_ctx[ret.self] = "true")
    => ContextOf(ret.v.items[1]).children = <<>>

\* C6: while the flag of an instance is set, a ctx() call on it returns the empty
\* mapping in one step, invoking no accessor and leaving the flag alone, and a
\* to_xml_element()/render_xml() of it made meanwhile returns a document whose
\* context node is empty.
C6_ReentrantEmpty == [][C6_ReentrantStep]_vars /\ []C6_NestedEmpty

C6_Witness ==
    /\ ret.kind = "val"
    /\ ret.op = "render_xml"
    /\ ret.self = "rec"
    /\ in_ctx["rec"] = "true"
    /\ ContextOf(ret.v.items[1]).children = <<>>
    /\ invoked = <<<<"rec", "me">>>>

\* C7: once an outermost call has ended, by return or by exception, no flag is
\* set, and every outermost call that returns has built the full context: each
\* placeholder is a key of the mapping, or a child of the context node.
C7_FlagCleared ==
    /\ stack = <<>> => \A i \in Instances : in_ctx[i] # "true"
    /\ \A i \in Instances :
          (Done(EntryOps) /\ ret.self = i /\ ret.kind = "val")
          => \A v \in TemplateVars(ClassOf[i]) \ {"fields"} :
                 IF ret.op = "ctx" THEN v \in Keys(ret.v)
                 ELSE HasChild(ContextOf(ret.v.items[1]), replace_dash(v))

C7_Witness ==
    /\ ncalls = 2
    /\ last.kind = "exc"
    /\ last.self = "strict"
    /\ Done({"ctx"})
    /\ ret.self = "strict"
    /\ ret.kind = "val"
    /\ Keys(ret.v) = {"req_id", "title"}
    /\ in_ctx["strict"] = "false"

\* the accessors of i that the template names and that call back into rendering
Callbacks(i) ==
    {v \in TemplateVars(ClassOf[i]) :
        /\ Definers(ClassOf[i], v) # <<>>
        /\ class_member(i, v).kind = "callback"}
TargetOf(i, v) == IF class_member(i, v).target = "self" THEN i ELSE Peer[i]

\* the frame on top is waiting for a call it made
Waiting ==
    \/ top.op \in {"render_xml", "accessor"} /\ top.pc = "wait"
    \/ top.op = "to_xml_element" /\ top.pc \in {"ctx1", "ctx2"}
    \/ top.op = "ctx" /\ top.pc = "finally"
    \/ top.op = "_do_ctx" /\ top.pc = "store"

\* C8: a render_xml() whose accessor renders the same instance again, directly
\* or through its peer, stays within a stack depth fixed by the number of
\* instances being rendered, never builds the context of one instance
\* twice at a time, always has a step to run or a result to hand back, and
\* returns a document whose context has the accessor's entry, the innermost
\* nested document of the same instance having an empty context.
C8_RecursionBounded ==
    /\ stack # <<>> =>
          /\ Len(stack) <= 5 * Cardinality({stack[k].self : k \in 1..Len(stack)}) + 3
          /\ Waiting => ret.kind # "none"
    /\ \A i \in Instances : Cardinality(DoCtxFrames(i)) <= 1
    /\ \A i \in Instances :
          (Done({"render_xml"}) /\ ret.self = i /\ ret.kind = "val")
          => \A v \in Callbacks(i) :
                LET outer == ContextOf(ret.v.items[1])
                IN  /\ HasChild(outer, v)
                    /\ LET doc == NestedDoc(ChildOf(outer, v))
                       IN  IF TargetOf(i, v) = i
                           THEN ContextOf(doc).children = <<>>
                           ELSE \A w \in Callbacks(TargetOf(i, v)) :
                                   /\ HasChild(ContextOf(doc), w)
                                   /\ ContextOf(NestedDoc(ChildOf(ContextOf(doc), w))).children
                                      = <<>>

C8_Witness ==
    /\ Done({"render_xml"})
    /\ ret.self = "n1"
    /\ ret.kind = "val"
    /\ HasChild(ContextOf(ret.v.items[1]), "other")
    /\ in_ctx["n2"] = "false"

C9_OtherInstanceStep ==
    (At("ctx", "call") /\ CtxFrames(top.self) = {Len(stack)})
    => /\ in_ctx'[top.self] = "true"
       /\ Len(stack') = Len(stack) + 1
       /\ stack'[Len(stack')].op = "_do_ctx"
       /\ stack'[Len(stack')].self = top.self

C9_OtherInstanceFull ==
    \A i \in Instances :
        (ret.kind = "val" /\ ret.op = "ctx" /\ ret.self = i /\ CtxFrames(i) = {})
        => TemplateVars(ClassOf[i]) \ {"fields"} \subseteq Keys(ret.v)

\* C9: a ctx() call on an instance that has no ctx() call in progress enters the
\* context build and returns the full context, whatever other instances have
\* their flag set at that time.
C9_GuardPerInstance == [][C9_OtherInstanceStep]_vars /\ []C9_OtherInstanceFull

C9_Witness ==
    /\ ret.kind = "val"
    /\ ret.op = "ctx"
    /\ ret.self = "n2"
    /\ in_ctx["n1"] = "true"
    /\ CtxFrames("n2") = {}
    /\ "other" \in Keys(ret.v)

\* the code points of the keys the converter is given
Spell ==
    [ key1 |-> <<107, 101, 121, 49>>, key2 |-> <<107, 101, 121, 50>>,
      nested |-> <<110, 101, 115, 116, 101, 100>> ]
    @@ ("dashed-key" :> <<100, 97, 115, 104, 101, 100, 45, 107, 101, 121>>)
    @@ ("a_a" :> <<97, 95, 97>>) @@ ("a-b" :> <<97, 45, 98>>)
    @@ ("a_b" :> <<97, 95, 98>>)
    @@ ("dashed_key" :> <<100, 97, 115, 104, 101, 100, 95, 107, 101, 121>>)
    @@ ("start_line" :> <<115, 116, 97, 114, 116, 95, 108, 105, 110, 101>>)
    @@ ("end_line" :> <<101, 110, 100, 95, 108, 105, 110, 101>>)
    @@ ("item" :> <<105, 116, 101, 109>>) @@ ("data" :> <<100, 97, 116, 97>>)
    @@ ("context" :> <<99, 111, 110, 116, 101, 120, 116>>)

\* the keys whose entries _to_xml_element leaves out of a mapping's node
LineKeys == {"start_line", "end_line"}

RECURSIVE LexLess(_, _)
LexLess(a, b) ==
    IF b = <<>> THEN FALSE
    ELSE IF a = <<>> THEN TRUE
    ELSE IF Head(a) # Head(b) THEN Head(a) < Head(b)
    ELSE LexLess(Tail(a), Tail(b))

\* the keys of a mapping in ascending lexicographic order
Ascending(K) ==
    CHOOSE q \in [1..Cardinality(K) -> K] :
        \A a, b \in 1..Cardinality(K) : a < b => LexLess(Spell[q[a]], Spell[q[b]])

RECURSIVE SortedTree(_, _)
SortedTree(e, v) ==
    IF v.k = "dict"
    THEN LET ks == Ascending(Keys(v) \ LineKeys)
         IN  /\ Len(e.children) = Len(ks)
             /\ \A n \in 1..Len(ks) :
                    /\ e.children[n].tag = replace_dash(ks[n])
                    /\ SortedTree(e.children[n], Get(v, ks[n]))
    ELSE IF v.k = "list"
    THEN /\ Len(e.children) = Len(v.items)
         /\ \A n \in 1..Len(v.items) : SortedTree(e.children[n], v.items[n])
    ELSE e.children = <<>>

\* C10: the children of the context node, and of the node of every mapping
\* nested in it, follow the ascending lexicographic order of the keys they
\* stand for, whatever the order of insertion.
C10_SortedChildren ==
    /\ last.op = "value" => SortedTree(xout, xin)
    /\ last.op = "context"
       => LET ks == Ascending(Keys(xin))
          IN  /\ Len(xout.children) = Len(ks)
              /\ \A n \in 1..Len(ks) :
                     /\ xout.children[n].tag = replace_dash(ks[n])
                     /\ SortedTree(xout.children[n], Get(xin, ks[n]))

C10_Witness ==
    /\ last.op = "context"
    /\ Len(xin.items) = 3
    /\ xin.items[1].key = "key2"
    /\ xin.items[2].key = "dashed-key"
    /\ xin.items[3].key = "a_a"
    /\ xin.items[1].val.k = "dict"
    /\ xout.children[1].tag = "a_a"
    /\ xout.children[3].children[1].tag = "a_b"

\* C11: when render_xml() or to_xml_element() is called on an instance again
\* right after the same call on it ended, the second call ends exactly as the
\* first did - the same document, or the same exception - and the _in_ctx
\* attribute the first call left on the instance is no child of the context node.
C11_RepeatIdentical ==
    (Done({"to_xml_element", "render_xml"}) /\ ncalls >= 2)
    => /\ ret = prev
       /\ ret.kind = "val" => ~HasChild(ContextOf(ret.v.items[1]), "_in_ctx")

C11_Witness ==
    /\ Done({"render_xml"})
    /\ ncalls = 2
    /\ ret.self = "complex"
    /\ ret.kind = "val"
    /\ prev.kind = "val"
    /\ "_in_ctx" \in dir("complex")
    /\ HasChild(ContextOf(ret.v.items[1]), "data")

Tags(e) == [n \in 1..Len(e.children) |-> e.children[n].tag]

\* the step of to_xml_element that builds the tree: ctx_data is the mapping the
\* first ctx() call returned
C12_BuildStep ==
    (At("to_xml_element", "ctx2") /\ ret.kind = "val")
    => LET c == ClassOf[top.self]
           e == ret'.v.items[1]
           body == strip(render(get_base_template(c), top.data))
       IN  /\ HasChild(e, "description") <=> body # <<>>
           /\ HasChild(e, "description") => ChildOf(e, "description").text = body
           /\ HasChild(e, "notes")
              => ChildOf(e, "notes").text
                 = strip(render(cleandoc(classes[c].doc), top.data))
           /\ ContextOf(e).tag = "context"

C12_Shape ==
    (ret.kind = "val" /\ ret.op = "to_xml_element")
    => LET c == ClassOf[ret.self]
           e == ret.v.items[1]
       IN  /\ e.tag = "specification"
           /\ e.attrs = <<Attr("type", c)>>
           /\ Tags(e) = (IF classes[c].file # "" THEN <<"source">> ELSE <<>>)
                        \o (IF HasChild(e, "description") THEN <<"description">>
                            ELSE <<>>)
                        \o (IF classes[c].doc # <<>> THEN <<"notes">> ELSE <<>>)
                        \o <<"context">>
           /\ HasChild(e, "source")
              => ChildOf(e, "source").attrs
                 = <<Attr("target", c), Attr("file", classes[c].file)>>

\* C12: to_xml_element() returns a node `specification` whose type attribute is
\* the concrete class name and whose children are, in this order, a source node
\* (target and file) exactly when the source of the class can be read, a
\* description node exactly when the rendered merged template is not empty, a
\* notes node exactly when the leaf has a docstring, rendered against the
\* mapping the description was rendered against, and a context node, always.
C12_DocumentShape == [][C12_BuildStep]_vars /\ []C12_Shape

C12_Witness ==
    /\ Done({"to_xml_element"})
    /\ ret.kind = "val"
    /\ ret.self = "n1"
    /\ classes["Node"].file = ""
    /\ Tags(ret.v.items[1]) = <<"description", "context">>

\* the key spelt with every hyphen turned into an underscore
Underscored(k) ==
    CHOOSE t \in DOMAIN Spell :
        Spell[t] = [n \in 1..Len(Spell[k]) |->
                       IF Spell[k][n] = 45 THEN 95 ELSE Spell[k][n]]

\* e is what the conversion of v must be when the entries under the keys
\* `dropped` are left out of every mapping
RECURSIVE Converted(_, _, _)
Converted(e, v, dropped) ==
    IF v.k = "dict"
    THEN /\ e.text = <<>>
         /\ Len(e.children) = Cardinality(Keys(v) \ dropped)
         /\ \A k \in Keys(v) \ dropped :
                \E n \in 1..Len(e.children) :
                    /\ e.children[n].tag = Underscored(k)
                    /\ Converted(e.children[n], Get(v, k), dropped)
    ELSE IF v.k = "list"
    THEN /\ e.text = <<>>
         /\ Len(e.children) = Len(v.items)
         /\ \A n \in 1..Len(v.items) :
                /\ e.children[n].tag = "item"
                /\ Converted(e.children[n], v.items[n], dropped)
    ELSE /\ e.children = <<>>
         /\ e.text = <<Piece(IF v.k = "int" THEN S(v.s) ELSE v)>>

\* the context node: one child per key of the extended context
ContextConverted(e, v, dropped) ==
    /\ Len(e.children) = Cardinality(Keys(v))
    /\ \A k \in Keys(v) :
           \E n \in 1..Len(e.children) :
               /\ e.children[n].tag = Underscored(k)
               /\ Converted(e.children[n], Get(v, k), dropped)

\* C13 as stated: every key of every mapping has its child, so that every key
\* and value of the extended context is in the tree.
C13_AsClaimed ==
    /\ last.op = "value" => Converted(xout, xin, {})
    /\ last.op = "context" => ContextConverted(xout, xin, {})

\* C13 amended: a mapping becomes a node with one child per key other than
\* start_line and end_line, tagged with the key, hyphens as underscores; a list
\* a node with one `item` child per element, in order; any other value the
\* node's text str(value). The context node has one child per key of the
\* extended context; entries under start_line or end_line of a mapping nested
\* in it are left out.
C13_ConvertedRecursively ==
    /\ last.op = "value" => Converted(xout, xin, LineKeys)
    /\ last.op = "context" => ContextConverted(xout, xin, LineKeys)

C13_Witness ==
    /\ last.op = "context"
    /\ Len(xin.items) = 2
    /\ xin.items[1].key = "dashed-key"
    /\ xin.items[1].val.k = "list"
    /\ xin.items[2].key = "a_a"
    /\ xin.items[2].val.k = "dict"
    /\ "end_line" \in Keys(xin.items[2].val)
    /\ Tags(xout) = <<"a_a", "dashed_key">>
    /\ Tags(xout.children[1]) = <<"a_b", "nested">>
    /\ Tags(xout.children[2]) = <<"item", "item">>

RECURSIVE NoLineTag(_)
NoLineTag(e) ==
    /\ e.tag \notin LineKeys
    /\ \A n \in 1..Len(e.children) : NoLineTag(e.children[n])

\* C14 as stated: no node of a structured document is named start_line or
\* end_line, at any depth, the children of the context node included.
C14_AsClaimed ==
    last.op \in {"value", "context"} => NoLineTag(xout)

\* the types defined directly in a listed module that are strict subclasses of
\* Ctx, and the names of the listed modules they are bound to
Declared ==
    {c \in DOMAIN DefinedIn :
        /\ \E n \in 1..Len(mods) :
               DefinedIn[c] = mods[n] /\ \E b \in Namespace[mods[n]] : b.cls = c
        /\ "Ctx" \in Range(mro(c))
        /\ c # "Ctx"}
DeclaredNames ==
    UNION {{b.name : b \in {x \in Namespace[mods[n]] : x.cls \in Declared}}
           : n \in 1..Len(mods)}

TypeOf(e) == e.attrs[1].value

\* C15 as stated: the specification_set has exactly one specification child for
\* each declared type, and no other child: N declared types give N children.
C15_AsClaimed ==
    (Done({"generate_xml"}) /\ ret.kind = "val")
    => LET root == ret.v.items[1]
       IN  /\ root.tag = "specification_set"
           /\ Len(root.children) = Cardinality(Declared)
           /\ \A n \in 1..Len(root.children) :
                  /\ root.children[n].tag = "specification"
                  /\ TypeOf(root.children[n]) \in Declared
           /\ \A c \in Declared :
                  Cardinality({n \in 1..Len(root.children) :
                                  TypeOf(root.children[n]) = c}) = 1

\* a unit that cannot be instantiated, or has a placeholder without a member
Fails(name) ==
    LET c == ClassOf[Created[name]]
    IN  \/ init_raises(c)
        \/ Unbound(Created[name], TemplateVars(c) \ {"fields"}) # {}

C16_RaiseStep ==
    (At("generate_xml", "append") /\ ret.kind = "exc")
    => /\ stack' = <<>>
       /\ ret'.kind = "exc"
       /\ ret'.v = ret.v

C16_NoPartial ==
    Done({"generate_xml"})
    => IF \E name \in DeclaredNames : Fails(name)
       THEN ret.kind = "exc"
       ELSE /\ ret.kind = "val"
            /\ Len(ret.v.items[1].children) = Cardinality(DeclaredNames)

\* C16: an exception raised while a discovered unit is instantiated or
\* serialized leaves generate_xml unchanged, at once; generate_xml returns a
\* document only when no unit fails, and then no unit is left out of it.
C16_FailurePropagates == [][C16_RaiseStep]_vars /\ []C16_NoPartial

C16_Witness ==
    /\ Done({"generate_xml"})
    /\ mods = <<"mock_mod", "req_mod">>
    /\ Raised("AttributeError")
    /\ Err.cls = "MissingFooReq"
    /\ in_ctx["myfeature"] = "false"

\* a template-only ctx() is the outermost call, on an instance of type c
TemplateOnlyCtx == stack # <<>> /\ stack[1].op = "ctx" /\ stack[1].tonly
\* that call is about to return r
CtxResult == Len(stack) = 1 /\ stack[1].pc = "finally" /\ ret.kind # "none"
EmptyAndSilent ==
    /\ invoked = <<>>
    /\ \A n \in 1..Len(stack) :
           stack[n].op = "_do_ctx" /\ stack[n].self = stack[1].self
               => stack[n].context = EmptyCtx
    /\ CtxResult => ret.kind = "val" /\ ret.v = EmptyCtx

NotesPart == strip(notes)
BodyPart == strip(render(tmpl, xin))

\* C18 as stated: render() returns the instance notes and the rendered merged
\* template, each trimmed, joined by exactly one blank line when both are
\* non-empty; when only one is non-empty the result is that one alone, with no
\* leading or trailing whitespace; when both are empty it is the empty string.
C18_AsClaimed ==
    last.op = "rendered" /\ ret.kind = "val" =>
        /\ ret.v.items = strip(ret.v.items)
        /\ ret.v.items =
             IF NotesPart # <<>> /\ BodyPart # <<>>
             THEN NotesPart \o <<NL, NL>> \o BodyPart
             ELSE NotesPart \o BodyPart

\* the names of the fields a type declares, in the order of declaration
DeclaredFields(c) ==
    [n \in 1..Len(annotations(c).items) |-> annotations(c).items[n].key]
ReferencesFields(c) == "fields" \in find_undeclared_variables(get_base_template(c))
\* the names a rendered text lists, one to a line, in the order of the lines
Listed(text) ==
    LET at == SelectSeq([n \in 1..Len(text) |-> n],
                        LAMBDA n : text[n].t = "lit" /\ text[n].s = "- ")
    IN  [k \in 1..Len(at) |-> text[at[k] + 1].v.s]
Fallback(text) ==
    \E n \in 1..Len(text) : text[n].t = "lit" /\ text[n].s = "- No fields defined."
DescriptionText(e) ==
    IF HasChild(e, "description") THEN ChildOf(e, "description").text ELSE <<>>
\* what the claim asks of the serialization of an instance of type c
FieldsSerialized(c, e) ==
    IF DeclaredFields(c) # <<>>
    THEN /\ Listed(DescriptionText(e)) = DeclaredFields(c)
         /\ ~Fallback(DescriptionText(e))
         /\ HasChild(ContextOf(e), "fields")
         /\ Tags(ChildOf(ContextOf(e), "fields"))
                = sorted_set(Range(DeclaredFields(c)))
    ELSE Fallback(DescriptionText(e))

\* C19 as stated: for a template that references `fields`, a type with a
\* declared annotation table has `fields` bound from it without an accessor of
\* its own, the rendered text lists every declared field in declaration order
\* and the structured context lists them in sorted order; a type with no
\* mapping to offer gets the line "- No fields defined." and no binding error.
C19_AsClaimed ==
    LET c == ClassOf[ret.self]
    IN  /\ Done({"to_xml_element"}) /\ ReferencesFields(c) =>
              /\ DeclaredFields(c) = <<>> => ret.kind = "val"
              /\ ret.kind = "val" => FieldsSerialized(c, ret.v.items[1])
        /\ Done({"ctx"}) /\ ReferencesFields(c) /\ DeclaredFields(c) # <<>>
                         /\ ret.kind = "val" =>
              /\ "fields" \in Keys(ret.v)
              /\ Get(ret.v, "fields") = annotations(c)

\* the type that declares accessor `name` of instance i
Declarer(i, name) == Head(Definers(ClassOf[i], name))
\* the accessor the binder is about to invoke is one a template type
\* declares, raising UnimplementedMethodError, and no type below overrides
AboutToInvokeUnimplemented ==
    /\ At("_do_ctx", "run") /\ top.phase = "bind" /\ top.todo # <<>>
    /\ LET m == replace_dash(Head(top.todo))
       IN  /\ m \notin InstanceAttrs(top.self)
           /\ Definers(ClassOf[top.self], m) # <<>>
           /\ class_member(top.self, m) = Unimplemented
           /\ Declarer(top.self, m) # ClassOf[top.self]
Unimplemented_Raised == ret.kind = "exc" /\ ret.v.s = "UnimplementedMethodError"

\* C20 as stated: invoking an accessor that a template type declares and the
\* leaf does not override raises UnimplementedMethodError, and the error
\* reports the method name and the type that declares the method.
C20_AsClaimed ==
    Unimplemented_Raised =>
        /\ invoked # <<>>
        /\ Err.method = invoked[Len(invoked)][2]
        /\ Err.cls = Declarer(invoked[Len(invoked)][1], Err.method)

C20_InvokeStep ==
    AboutToInvokeUnimplemented =>
        /\ ret'.kind = "exc" /\ ret'.v.s = "UnimplementedMethodError"
        /\ ret'.v.items[1].method = replace_dash(Head(top.todo))
        /\ ret'.v.items[1].cls = ClassOf[top.self]
C20_Reported ==
    Unimplemented_Raised =>
        /\ invoked # <<>>
        /\ Err.method = invoked[Len(invoked)][2]
        /\ Err.cls = ClassOf[invoked[Len(invoked)][1]]
        /\ class_member(invoked[Len(invoked)][1], Err.method) = Unimplemented

\* C20: invoking an accessor that a template type declares and the leaf does
\* not override raises UnimplementedMethodError, and the error reports the
\* method name and the type of the instance the accessor was invoked on (the
\* leaf), not the type that declares the method.
C20_ReportsInstanceType == [][C20_InvokeStep]_vars /\ []C20_Reported

C20_Witness ==
    /\ Unimplemented_Raised
    /\ stack = <<>> /\ ret.self = "dated"
    /\ Err.method = "date"
    /\ Err.cls = "DatedLeaf"
    /\ Declarer("dated", "date") = "Feature"

\* the names MyApi declares, in declaration order
DeclaredOrder == own_dict("MyApi")
PublicFunctions == {"endpoint_a", "endpoint_b", "check"}
Descriptors == ret.v.items
Field(d, key) == Get(d, key)

\* C22: methods() returns one descriptor for each public function the type of
\* the instance declares itself, in declaration order, none for an inherited
\* method (methods itself among them), for a name that starts with an
\* underscore or for an attribute that is no function; each descriptor holds
\* the name, the parameter names without self, the docstring or "No
\* description provided", what the call with None for every parameter
\* returned, and the source reference. A call that raises ends methods() with
\* that exception.
C22_OwnPublicFunctions ==
    last.op = "listed" =>
        LET expected == SelectSeq(DeclaredOrder, LAMBDA n : n \in PublicFunctions)
        IN  IF "check" \in Range(DeclaredOrder)
            THEN ret.kind = "exc" /\ ret.v.s = "RuntimeError"
            ELSE /\ ret.kind = "val"
                 /\ [n \in 1..Len(Descriptors) |-> Field(Descriptors[n], "name").s]
                        = expected
                 /\ \A n \in 1..Len(Descriptors) :
                        LET d == Descriptors[n]
                            name == Field(d, "name").s
                        IN  /\ [j \in 1..Len(d.items) |-> d.items[j].key]
                                 = <<"name", "params", "description", "result",
                                     "source_ref">>
                            /\ Field(d, "params").items
                                 = IF name = "endpoint_b" THEN <<S("x")>> ELSE <<>>
                            /\ Field(d, "description").items
                                 = IF name = "endpoint_a" THEN <<L("Doc A")>>
                                   ELSE <<L("No description provided")>>
                            /\ Field(d, "result")
                                 = IF name = "endpoint_b" THEN S("ok") ELSE NoneV
                            /\ IF classes["MyApi"].file = ""
                               THEN Field(d, "source_ref") = NoneV
                               ELSE /\ Field(d, "source_ref").k = "dict"
                                    /\ Get(Field(d, "source_ref"), "name") = S(name)
                                    /\ Get(Field(d, "source_ref"), "file")
                                         = S(classes["MyApi"].file)

C22_Witness ==
    /\ last.op = "listed"
    /\ DeclaredOrder = <<"endpoint_b", "limit", "endpoint_a">>
    /\ ret.kind = "val"
    /\ Len(Descriptors) = 2
    /\ Field(Descriptors[1], "name") = S("endpoint_b")
    /\ Field(Descriptors[2], "name") = S("endpoint_a")
    /\ Definers("MyApi", "methods") = <<"LeafMethods">>

------------------------------------------------------------------------------
(* C21, C23, C29: the document as text and on disk.                          *)

RECURSIVE TagTree(_)
\* the tags of a node and of everything below it
TagTree(e) == [tag |-> e.tag, sub |-> [n \in 1..Len(e.children) |-> TagTree(e.children[n])]]

\* a key as a tag: hyphens as underscores
Norm(k) == IF k \in DOMAIN Spell THEN Underscored(k) ELSE k

RECURSIVE SameKeys(_, _, _)
\* node e has the keys of v at every level, the keys in `dropped` left out of
\* every mapping
SameKeys(e, v, dropped) ==
    IF v.k = "dict"
    THEN /\ Len(e.children) = Cardinality(Keys(v) \ dropped)
         /\ \A k \in Keys(v) \ dropped :
                \E n \in 1..Len(e.children) :
                    /\ e.children[n].tag = Norm(k)
                    /\ SameKeys(e.children[n], Get(v, k), dropped)
    ELSE IF v.k = "list"
    THEN /\ Len(e.children) = Len(v.items)
         /\ \A n \in 1..Len(v.items) :
                /\ e.children[n].tag = "item"
                /\ SameKeys(e.children[n], v.items[n], dropped)
    ELSE e.children = <<>>

\* the context node of a parsed specification node against the extended
\* context it was built from
ContextKeys(e, v, dropped) ==
    /\ Len(e.children) = Cardinality(Keys(v))
    /\ \A k \in Keys(v) :
           \E n \in 1..Len(e.children) :
               /\ e.children[n].tag = Norm(k)
               /\ SameKeys(e.children[n], Get(v, k), dropped)

\* a reader has parsed the text of the last call
Parsed == last.op = "parsed" /\ stack = <<>>
\* the tree generate_xml built for that text
BuiltRoot == IF ret.op = "write_xml" THEN prev.v.items[1] ELSE ret.v.items[1]

\* the parsed text against the tree in memory: as many specification nodes,
\* the same types, the same tags below each
C21_Document ==
    Parsed
    => /\ xout.tag = "specification_set"
       /\ Len(specification_nodes(xout)) = Len(BuiltRoot.children)
       /\ Len(xout.children) = Len(BuiltRoot.children)
       /\ \A n \in 1..Len(xout.children) :
              /\ xout.children[n].tag = "specification"
              /\ xout.children[n].attrs = BuiltRoot.children[n].attrs
              /\ TagTree(xout.children[n]) = TagTree(BuiltRoot.children[n])

\* the specification node to_xml_element is about to build from the two
\* contexts it has, as a reader of its text finds it
AboutToBuild == At("to_xml_element", "ctx2") /\ ret.kind = "val"
ParsedNode ==
    parseString(document(specification_elem(ClassOf[top.self], top.data, ret.v)))

\* C21 as stated: the parsed text of a specification node has, at every
\* nesting level, the keys of the extended context the node is built from
\* (hyphens as underscores).
C21_AsClaimed ==
    /\ C21_Document
    /\ AboutToBuild => ContextKeys(ContextOf(ParsedNode), ret.v, {})

\* C21 amended: parsing the text produced by generate_xml()/write_xml() yields
\* as many specification nodes as there are in-memory specifications, with the
\* same type attributes, and under each context node the keys of the extended
\* context at every nesting level, hyphens as underscores and list elements as
\* `item`, except that the entries under start_line and end_line of a mapping
\* nested in the context are absent.
C21_RoundTrip ==
    /\ C21_Document
    /\ AboutToBuild
       => /\ ParsedNode.attrs = <<Attr("type", ClassOf[top.self])>>
          /\ ContextKeys(ContextOf(ParsedNode), ret.v, LineKeys)

C21_Witness ==
    /\ Parsed
    /\ ret.op = "write_xml"
    /\ mods = <<"api_mod">>
    /\ Len(xout.children) = 1
    /\ xout.children[1].attrs = <<Attr("type", "LocatedApi")>>
    /\ LET item == ChildOf(ContextOf(xout.children[1]), "methods").children[1]
       IN  Tags(ChildOf(item, "source_ref")) = <<"file", "name">>

\* write_xml has returned
Written == stack = <<>> /\ ret.op = "write_xml" /\ ret.kind = "val"
\* the text generate_xml returned to it
Returned == document(prev.v.items[1])
\* the spec files of a directory
SpecFiles(folder) ==
    {f \in disk.files : f.folder = folder /\ f.fname # "source_map.json"}
\* spec-<the first 20 hex characters of the content hash>.xml
Addressed(text) ==
    "spec-" \o hexdigits(SubSeq(easy_hash(text), 1, 20)) \o ".xml"

\* the step of write_xml that follows generate_xml's return: the directory is
\* the one passed, it exists afterwards, and the path returned is in it
C23_WriteStep ==
    (At("write_xml", "generate") /\ ret.kind = "val")
    => /\ top.cur \in disk'.dirs
       /\ ret'.kind = "val"
       /\ ret'.v = S(join_path(top.cur, Addressed(document(ret.v.items[1]))))
       /\ \E f \in disk'.files :
              /\ f.folder = top.cur
              /\ f.fname = Addressed(document(ret.v.items[1]))
              /\ f.content = document(ret.v.items[1])

C23_Files ==
    /\ Written
       => \E f \in disk.files :
              /\ ret.v = S(join_path(f.folder, f.fname))
              /\ f.folder \in disk.dirs
              /\ f.fname = Addressed(Returned)
              /\ f.content = Returned
    /\ \A folder \in disk.dirs : Cardinality(SpecFiles(folder)) = 1
    /\ \A f, g \in disk.files : f.content = g.content => f.fname = g.fname

\* C23: write_xml(output_dir) writes the text generate_xml() returned to
\* output_dir/spec-<first 20 hex characters of the content hash>.xml, creating
\* the directory if needed, and returns that path; identical content always
\* has the same file name, so repeated calls with unchanged types leave a
\* single spec file in a directory.
C23_ContentAddressed == [][C23_WriteStep]_vars /\ []C23_Files

C23_Witness ==
    /\ Written
    /\ ncalls = 2
    /\ disk.dirs = OutputDirs
    /\ mods = <<"mock_mod">>
    /\ \E f \in SpecFiles("out"), g \in SpecFiles("build/spec") :
           /\ f.fname = g.fname
           /\ ret.v = S(join_path("build/spec", g.fname))
           /\ g.content = Returned

\* nothing is written before generate_xml has returned its text
C29_OnlyAfterText ==
    disk' # disk => (At("write_xml", "generate") /\ ret.kind = "val")

\* generate_xml's exception leaves write_xml with the output location as it was
C29_RaiseStep ==
    (At("write_xml", "generate") /\ ret.kind = "exc")
    => /\ disk' = disk
       /\ stack' = <<>>
       /\ ret'.kind = "exc"
       /\ ret'.v = ret.v

\* C29: write_xml() creates no directory and writes no file (neither the XML
\* document nor source_map.json) when generate_xml() raises; output is written
\* only after the whole document has been generated.
C29_NoOutputOnFailure == [][C29_OnlyAfterText /\ C29_RaiseStep]_vars

C29_Witness ==
    /\ stack = <<>>
    /\ ret.op = "write_xml"
    /\ ret.kind = "exc"
    /\ mods = <<"req_mod">>
    /\ disk = NoDisk

------------------------------------------------------------------------------
(* C24 - C26: what a context build invokes and what the extended mode adds.  *)

\* the placeholders of i's templates that are bound to a callable member
BoundAccessors(i) ==
    {v \in TemplateVars(ClassOf[i]) :
        /\ v \notin InstanceAttrs(i)
        /\ Definers(ClassOf[i], v) # <<>>
        /\ class_member(i, v).kind # "value"}
\* how often member `name` of i was invoked during the outermost call
Times(i, name) == Cardinality({n \in DOMAIN invoked : invoked[n] = <<i, name>>})
\* how often a placeholder occurs in i's templates
Occurrences(i, v) ==
    Cardinality({<<k, n>> \in Ancestors(ClassOf[i]) \X (1..8) :
                    /\ n \in DOMAIN classes[k].doc
                    /\ classes[k].doc[n] = V(v)})
\* no member of i renders or serializes anything itself
Plain(i) ==
    \A k \in Range(mro(ClassOf[i])) : \A n \in DOMAIN classes[k].members :
        classes[k].members[n].kind # "callback"

Public(i) ==
    {n \in dir(i) : /\ ~startswith_underscore(n)
                    /\ n \notin {"ctx", "render", "render_xml", "to_xml_element"}}
NonCallable(i, n) == n \in InstanceAttrs(i) \/ class_member(i, n).kind = "value"
NeedsArguments(i, n) == ~NonCallable(i, n) /\ parameters(n) # <<>>
\* invoking member n raises one of the errors the extended mode passes over
RaisesPassedOver(i, n) ==
    /\ ~NonCallable(i, n)
    /\ class_member(i, n).kind = "raise"
    /\ class_member(i, n).val.s \in {"TypeError", "ValueError", "UnimplementedMethodError"}
\* to_xml_element has both contexts of a call that is not re-entrant
BothContexts == AboutToBuild /\ in_ctx[top.self] # "true"

Extends(added) ==
    /\ \A k \in Keys(top.data) :
           k \in Keys(ret.v) /\ Get(ret.v, k) = Get(top.data, k)
    /\ Keys(ret.v) \ Keys(top.data) = added
    /\ \A n \in Public(top.self) :
           NeedsArguments(top.self, n) /\ n \notin Keys(top.data)
           => n \notin Keys(ret.v) /\ Times(top.self, n) = 0

Unreferenced(i) ==
    {n \in Public(i) : /\ ~NonCallable(i, n)
                       /\ parameters(n) = <<>>
                       /\ class_member(i, n).kind = "raise"
                       /\ class_member(i, n).val.s = "UnimplementedMethodError"
                       /\ n \notin TemplateVars(ClassOf[i])}

\* the extended loop at such a member goes on with the next one
C26_PassStep ==
    (/\ At("_do_ctx", "run") /\ top.phase = "extend"
     /\ skip(top.todo, top.context) # <<>>
     /\ Head(skip(top.todo, top.context)) \in Unreferenced(top.self))
    => /\ Len(stack') = Len(stack)
       /\ ret'.kind = "none"
       /\ stack'[Len(stack)].context = top.context

C26_LeftOut ==
    /\ (Done({"ctx"}) /\ ret.kind = "val")
       => Keys(ret.v) \cap Unreferenced(ret.self) = {}
    /\ (Done({"to_xml_element"}) /\ ret.kind = "val")
       => \A n \in Unreferenced(ret.self) : ~HasChild(ContextOf(ret.v.items[1]), n)
    /\ (Done({"to_xml_element"}) /\ ret.kind = "exc")
       => ~(/\ ret.v.s = "UnimplementedMethodError"
            /\ ret.v.items[1].method \in Unreferenced(ret.self))

\* C26: in extended mode a public zero-argument member that the template does
\* not reference and whose invocation raises UnimplementedMethodError is left
\* out of the context, and serialization succeeds: a Feature subclass without
\* date/description serializes with no date/description entry.
C26_UnimplementedOmitted == [][C26_PassStep]_vars /\ []C26_LeftOut

C26_Witness ==
    /\ Done({"to_xml_element"})
    /\ ret.kind = "val"
    /\ ret.self = "myfeature"
    /\ Unreferenced("myfeature") = {"date", "description"}
    /\ Times("myfeature", "date") = 1
    /\ Tags(ContextOf(ret.v.items[1])) = <<"feature_name", "val">>

------------------------------------------------------------------------------
(* C27: what a caller does to a returned mapping.                            *)

\* the table of fields type c declares in the program as written
Written_fields(c) ==
    IF "__annotations__" \in DOMAIN Program[c].members
    THEN Program[c].members["__annotations__"].val
    ELSE EmptyCtx

\* C27 as stated: whatever a caller did to the mappings and values earlier
\* calls returned, a ctx() call returns what it returns in the program as
\* written: no entry a caller added, and under `fields` the declared table.
C27_AsClaimed ==
    (Done({"ctx"}) /\ ret.kind = "val" /\ last.op # "mutated")
    => /\ "extra" \notin Keys(ret.v)
       /\ ("fields" \in Keys(ret.v)
            /\ class_member(ret.self, "fields").kind = "annotations")
          => Get(ret.v, "fields") = Written_fields(ClassOf[ret.self])

------------------------------------------------------------------------------
(* C28: the guard during an outer call.                                      *)

\* a ctx() call on i has set the flag and not yet left its try block
Building(i) ==
    \E n \in DOMAIN stack :
        stack[n].op = "ctx" /\ stack[n].self = i /\ stack[n].pc = "finally"

\* a ctx() call made on an instance while one is building: it returns the
\* empty mapping and the flag stays set
C28_ReentrantStep ==
    (At("ctx", "call") /\ Building(top.self))
    => /\ stack' = Pop
       /\ ret'.kind = "val"
       /\ ret'.v = EmptyCtx
       /\ in_ctx'[top.self] = "true"

C28_GuardHeld == \A i \in Instances : Building(i) => in_ctx[i] = "true"

\* C28: a re-entrant ctx() call that returns the empty result does not clear
\* the guard: the flag stays set until the outermost call on that instance
\* exits, so every further re-entrant call made during the same outer call
\* also returns empty.
C28_GuardStaysSet == [][C28_ReentrantStep]_vars /\ []C28_GuardHeld

C28_Witness ==
    /\ At("to_xml_element", "ctx2")
    /\ top.self = "rec"
    /\ Building("rec")
    /\ top.data = EmptyCtx
    /\ ret.kind = "val"
    /\ ret.op = "ctx"
    /\ ret.v = EmptyCtx
    /\ in_ctx["rec"] = "true"

------------------------------------------------------------------------------
(* C30: the forms of the spec decorator.                                     *)

\* C30 as stated: each decoration, in any of the documented forms, appends
\* exactly one entry for the callable with the meta given to the registry, sets
\* _spec_meta on it and returns the callable itself.
C30_AsClaimed ==
    ncalls > 0
    => /\ ret.kind = "val"
       /\ ret.v = S(ret.self)
       /\ Len(registry) = ncalls
       /\ registry[Len(registry)].name = ret.self
       /\ registry[Len(registry)].meta = MetaOf(ret.op)
       /\ spec_meta[ret.self] = MetaOf(ret.op)

==============================================================================
